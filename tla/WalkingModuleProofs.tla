------------------------- MODULE WalkingModuleProofs -------------------------
(***************************************************************************)
(* Proofs about the gait of op3_walking_module, for every period, every    *)
(* number of joints and of rows of the initial pose.                       *)
(***************************************************************************)
EXTENDS WalkingModule, Integers, TLAPS

\* Standing as the invariant needs it: real_running_ = false is written one step
\* after it was decided on, and a start may come in between; nothing moves the
\* clock or the amplitudes until it is written.
AtPhaseZero == time \in {0, 2 * Quarter} /\ amp = {}
HaltDecided == pc = "halt" => AtPhaseZero
\* The initial pose is under way as long as there are rows left.
RowsLeft == state = "InitPose" => count < PoseSteps
IInv == TypeOK /\ RowsLeft /\ StandsOnBothFeet /\ HaltDecided

USE QuarterAssumption, JointCountAssumption, PoseStepsAssumption, ClientAssumption DEF commandVars

\* The values of the variables are kept within their types by every step.
LEMMA GaitTyped ==
  TypeOK /\ RowsLeft /\ [Next]_vars => TypeOK' /\ RowsLeft'
<1> SUFFICES ASSUME TypeOK, RowsLeft, [Next]_vars PROVE TypeOK' /\ RowsLeft'
  OBVIOUS
<1> USE DEF TypeOK, RowsLeft, Period, Moves
<1>1. CASE PoseStep
  BY <1>1 DEF PoseStep, gaitVars, Written, Joints
<1>2. CASE BeginGait
  BY <1>2 DEF BeginGait, moduleVars, gaitVars, poseVars
<1>3. CASE ProcessPhase
  BY <1>3 DEF ProcessPhase, Cleared, moduleVars, poseVars
<1>4. CASE Halt
  BY <1>4 DEF Halt, moduleVars, gaitVars, poseVars
<1>5. CASE ComputeLegs
  BY <1>5 DEF ComputeLegs
<1>6. CASE Advance
  <2>1. time' \in 0 .. Period - 1
    <3>1. CASE real
      BY <1>6, <3>1 DEF Advance, After
    <3>2. CASE ~real
      BY <1>6, <3>2 DEF Advance
    <3> QED
      BY <3>1, <3>2
  <2>2. prev' \in BOOLEAN
    <3>1. CASE prev' = prev
      BY <3>1
    <3>2. CASE prev' = ("x" \in param)
      <4> ("x" \in param) \in BOOLEAN
        OBVIOUS
      <4> QED
        BY <3>2, Zenon
    <3>3. prev' = prev \/ prev' = ("x" \in param)
      BY <1>6, Zenon DEF Advance
    <3> QED
      BY <3>1, <3>2, <3>3
  <2> QED
    BY <1>6, <2>1, <2>2 DEF Advance, moduleVars, poseVars
<1>7. CASE Client
  BY <1>7 DEF Client, Hear, Start, Stop, SetParam, moduleVars, gaitVars,
              poseVars
<1>8. CASE Setter
  BY <1>8 DEF Setter, Retire, SeenAtRest, Disable, Enable,
              moduleVars, gaitVars, poseVars
<1>9. CASE UNCHANGED vars
  BY <1>9 DEF vars, moduleVars, gaitVars, poseVars
<1> QED
  BY <1>1, <1>2, <1>3, <1>4, <1>5, <1>6, <1>7, <1>8, <1>9 DEF Next, Timer

\* Clock and amplitudes move only while the gait runs, or stay where it can halt.
LEMMA StandStep ==
  IInv /\ [Next]_vars => StandsOnBothFeet' /\ HaltDecided'
<1> SUFFICES ASSUME IInv, [Next]_vars PROVE StandsOnBothFeet' /\ HaltDecided'
  OBVIOUS
<1> USE DEF IInv, TypeOK, StandsOnBothFeet, HaltDecided, AtPhaseZero
<1>1. CASE PoseStep
  BY <1>1 DEF PoseStep, gaitVars
<1>2. CASE BeginGait
  BY <1>2 DEF BeginGait, gaitVars
<1>3. CASE ProcessPhase
  <2>1. CASE time \in {0, 2 * Quarter}
    BY <1>3, <2>1 DEF ProcessPhase, Halts
  <2>2. CASE time \in {Quarter, 3 * Quarter}
    <3>1. real
      BY <2>2
    <3> QED
      BY <1>3, <2>2, <3>1 DEF ProcessPhase
  <2>3. CASE time \notin {0, Quarter, 2 * Quarter, 3 * Quarter}
    BY <1>3, <2>3 DEF ProcessPhase
  <2> QED
    BY <2>1, <2>2, <2>3
<1>4. CASE Halt
  BY <1>4 DEF Halt, gaitVars
<1>5. CASE ComputeLegs
  BY <1>5 DEF ComputeLegs
<1>6. CASE Advance
  BY <1>6 DEF Advance
<1>7. CASE Client
  BY <1>7 DEF Client, Hear, Start, Stop, SetParam, gaitVars
<1>8. CASE Setter
  BY <1>8 DEF Setter, Retire, SeenAtRest, Disable, Enable, gaitVars
<1>9. CASE UNCHANGED vars
  BY <1>9 DEF vars, gaitVars
<1> QED
  BY <1>1, <1>2, <1>3, <1>4, <1>5, <1>6, <1>7, <1>8, <1>9 DEF Next, Timer

\* The invariant holds of every reachable state.
LEMMA InvariantHolds == Spec => []IInv
<1>1. Init => IInv
  <2> SUFFICES ASSUME Init PROVE IInv
    OBVIOUS
  <2>1. {enabled, ctrl, real, prev} \subseteq BOOLEAN
    BY DEF Init
  <2>2. {time, shown} \subseteq 0 .. Period - 1 /\ count \in 0 .. PoseSteps
    BY DEF Init, Period
  <2>3. {param, amp} \subseteq SUBSET Moves /\ led \subseteq Joints
    BY Zenon DEF Init
  <2>4. TypeOK
    BY <2>1, <2>2, <2>3 DEF Init, TypeOK
  <2>5. RowsLeft /\ StandsOnBothFeet /\ HaltDecided
    BY DEF Init, RowsLeft, StandsOnBothFeet, HaltDecided, AtPhaseZero
  <2> QED
    BY <2>4, <2>5 DEF IInv
<1>2. IInv /\ [Next]_vars => IInv'
  BY GaitTyped, StandStep DEF IInv
<1> QED
  BY <1>1, <1>2, PTL DEF Spec

\* walking_state_, time_, init_pose_count_ and the others keep to their values: the
\* clock never passes the period, and the initial pose never its last row.
THEOREM GaitTypeCorrect == Spec => []TypeOK
  BY InvariantHolds, PTL DEF IInv

\* Wherever in the period a stop, a start, new parameters or a hand-over fall: the
\* gait comes to rest only with both feet on the ground and amplitudes of zero.
THEOREM RestsOnBothFeet == Spec => []StandsOnBothFeet
  BY InvariantHolds, PTL DEF IInv

----------------------------------------------------------------------------
(* Clients that wait for the initial pose before they start the gait, and  *)
(* leave a module alone that is being retired: the gait never jumps.       *)

\* The gait is at rest while the module is given up, disabled, and led to its
\* initial pose.
RestsBetween ==
  /\ heard = "start" => enabled /\ retiring = "no" /\ state = "Ready"
  /\ retiring = "seen" => ~real
  /\ ~enabled => ~real
  /\ EnabledAtRest
  /\ state = "InitPose" => ~real

\* The legs lag behind the clock by one tick at most, and not at all while the
\* initial pose is taken.
LegsFollow ==
  /\ pc = "advance" \/ state = "InitPose" => shown = time
  /\ time \in {shown, After(shown)}

Calm == RestsBetween /\ LegsFollow

\* Every step keeps the gait at rest while the module is not in use.
LEMMA RestStep ==
  ASSUME Patient, Considerate, RestsBetween, [Next]_vars
  PROVE  RestsBetween'
<1> USE DEF RestsBetween, EnabledAtRest
<1>1. CASE Timer
  BY <1>1 DEF Timer, PoseStep, BeginGait, ProcessPhase, Halt,
              ComputeLegs, Advance,
              moduleVars
<1>2. CASE Client
  BY <1>2 DEF Client, Hear, Start, Stop, SetParam, moduleVars
<1>3. CASE Setter
  BY <1>3 DEF Setter, Retire, SeenAtRest, Running, Disable, Enable
<1>4. CASE UNCHANGED vars
  BY <1>4 DEF vars, moduleVars
<1> QED
  BY <1>1, <1>2, <1>3, <1>4 DEF Next

\* Every step keeps the legs with the clock.
LEMMA FollowStep ==
  ASSUME Patient, Considerate, RestsBetween, LegsFollow, [Next]_vars
  PROVE  LegsFollow'
<1> USE DEF RestsBetween, EnabledAtRest, LegsFollow, After, Period
<1>1. CASE PoseStep
  BY <1>1 DEF PoseStep, gaitVars
<1>2. CASE BeginGait
  BY <1>2 DEF BeginGait, moduleVars, gaitVars
<1>3. CASE ProcessPhase
  BY <1>3 DEF ProcessPhase, moduleVars
<1>4. CASE Halt
  BY <1>4 DEF Halt, moduleVars, gaitVars
<1>5. CASE ComputeLegs
  BY <1>5 DEF ComputeLegs
<1>6. CASE Advance
  BY <1>6 DEF Advance, moduleVars
<1>7. CASE Client
  BY <1>7 DEF Client, Hear, Start, Stop, SetParam, moduleVars, gaitVars
<1>8. CASE Setter
  BY <1>8 DEF Setter, Retire, SeenAtRest, Disable, Enable, gaitVars
<1>9. CASE UNCHANGED vars
  BY <1>9 DEF vars, moduleVars, gaitVars
<1> QED
  BY <1>1, <1>2, <1>3, <1>4, <1>5, <1>6, <1>7, <1>8, <1>9 DEF Next, Timer

\* The two hold together of every reachable state.
LEMMA CalmHolds ==
  ASSUME Patient, Considerate
  PROVE  Spec => []Calm
<1>1. Init => Calm
  BY DEF Init, Calm, RestsBetween, EnabledAtRest, LegsFollow
<1>2. Calm /\ [Next]_vars => Calm'
  BY RestStep, FollowStep DEF Calm
<1> QED
  BY <1>1, <1>2, PTL DEF Spec

\* The module is enabled with its gait at rest: it does not walk unasked.
THEOREM EnabledOnlyAtRest ==
  ASSUME Patient, Considerate
  PROVE  Spec => []EnabledAtRest
<1>1. Calm => EnabledAtRest
  BY DEF Calm, RestsBetween
<1> QED
  BY <1>1, CalmHolds, PTL

\* The legs are never computed for a time_ that is not the last one or the tick
\* after it, over stops, restarts, initial poses and hand-overs.
THEOREM GaitNeverJumps ==
  ASSUME Patient, Considerate
  PROVE  Spec => GaitContinuous
<1>1. Calm /\ [Next]_vars
        => [pc = "legs" => time \in {shown, After(shown)}]_(vars)
  BY DEF Calm, LegsFollow
<1> QED
  BY <1>1, CalmHolds, PTL DEF Spec, GaitContinuous

----------------------------------------------------------------------------
(* Clients that leave a module alone that is stopped or retired: the gait  *)
(* keeps the contract that the controller relies on.                       *)

\* walking_state_ goes with process() and with the enable flag: the initial pose is begun
\* at the end of a process() of an enabled module, never in its course.
Orderly ==
  /\ ~enabled => state \notin {"Enable", "InitPose"}
  /\ pc \in {"phase", "halt", "legs"} => state # "InitPose"
  /\ pc = "advance" => state # "Enable"

LEMMA OrderlyStep ==
  ASSUME IInv, Orderly, [Next]_vars
  PROVE  Orderly'
<1> USE DEF IInv, TypeOK, Orderly
<1>1. CASE Timer
  BY <1>1 DEF Timer, PoseStep, BeginGait, ProcessPhase, Halt,
              ComputeLegs, Advance, moduleVars
<1>2. CASE Client
  BY <1>2 DEF Client, Hear, Start, Stop, SetParam, moduleVars
<1>3. CASE Setter
  BY <1>3 DEF Setter, Retire, SeenAtRest, Disable, Enable
<1>4. CASE UNCHANGED vars
  BY <1>4 DEF vars, moduleVars
<1> QED
  BY <1>1, <1>2, <1>3, <1>4 DEF Next

\* A stopped gait halts within three halves of its period.
GaitBound == GaitLeft \in 1 .. 3 * HalfPeriod + 1
LEMMA GaitBounded ==
  TypeOK => GaitBound
<1> USE DEF TypeOK, Period
<1> DEFINE H == HalfPeriod
<1>1. H \in Nat /\ H > 0 /\ H = 2 * Quarter
  BY DEF HalfPeriod
<1>2. ASSUME NEW e \in 0 .. 2 PROVE H * e \in 0 .. 2 * H
  <2>1. CASE e = 0
    BY <1>1, <2>1
  <2>2. CASE e = 1
    BY <1>1, <2>2
  <2>3. CASE e = 2
    BY <1>1, <2>3
  <2> QED
    BY <2>1, <2>2, <2>3
<1>3. TypeOK => GaitBound
  <2> SUFFICES ASSUME TypeOK PROVE GaitBound
    OBVIOUS
  <2>1. TicksToEnd \in 0 .. H
    BY <1>1 DEF TicksToEnd, EndIsZero, AtEnd, HalfPeriod
  <2>2. EndsToPass \in 0 .. 2
    BY DEF EndsToPass
  <2> HIDE DEF H
  <2>3. H * EndsToPass \in 0 .. 2 * H
    BY <1>2, <2>2
  <2>4. GaitLeft = H * EndsToPass + TicksToEnd + 1
    BY DEF GaitLeft, H
  <2>5. GaitLeft \in 1 .. 3 * H + 1
    BY <1>1, <2>1, <2>3, <2>4
  <2> QED
    BY <2>5 DEF GaitBound, H
<1> QED
  BY <1>3

\* ... and the module is never further from rest than after a command that comes when
\* its initial pose is about to begin; it has some way to go exactly when isRunning().
MotionBound ==
  /\ MotionLeft \in 0 .. LongestStop
  /\ MotionLeft = 0 <=> ~Running
LEMMA MotionBounded ==
  TypeOK /\ RowsLeft => MotionBound
<1>1. HalfPeriod \in Nat /\ HalfPeriod > 0
  BY DEF HalfPeriod
<1>2. TypeOK /\ RowsLeft => MotionBound
  <2> SUFFICES ASSUME TypeOK, RowsLeft PROVE MotionBound
    OBVIOUS
  <2>1. GaitLeft \in 1 .. 3 * HalfPeriod + 1
    BY GaitBounded DEF GaitBound
  <2>2. /\ PoseLeft \in 0 .. PoseSteps + 1
        /\ state = "InitPose" => PoseLeft > 0
    BY DEF PoseLeft, RowsLeft, TypeOK
  <2>3. MotionLeft \in 0 .. LongestStop
    BY <1>1, <2>1, <2>2 DEF MotionLeft, LongestStop
  <2>4. MotionLeft = 0 <=> ~Running
    BY <1>1, <2>1, <2>2 DEF MotionLeft, LongestStop, Running
  <2> QED
    BY <2>3, <2>4 DEF MotionBound
<1> QED
  BY <1>2

\* What is left of a stopped gait does not grow where processPhase() acts on time_,
\* although it may replace the parameters there ...
LEMMA PhaseKeepsLeft ==
  ASSUME IInv, ProcessPhase, ~ctrl
  PROVE  GaitLeft' <= GaitLeft
<1> USE DEF IInv, TypeOK, Period, HalfPeriod
<1>1. CASE time \in {0, 2 * Quarter}
  <2>1. AtEnd /\ ~FootToRise /\ TicksToEnd = 0 /\ (EndIsZero <=> time = 0)
    BY <1>1 DEF ProcessPhase, AtEnd, Undecided, FootToRise,
                TicksToEnd, EndIsZero
  <2>2. CASE amp = {}
    BY <1>1, <2>2 DEF ProcessPhase, Halts, GaitLeft, EndsToPass,
       TicksToEnd, FootToRise, EndIsZero, AtEnd, Undecided
  <2>3. CASE amp # {}
    <3>1. /\ pc' = "legs" /\ time' = time
          /\ param' = Cleared /\ prev' = (prev /\ time # 0)
      BY <1>1, <2>3 DEF ProcessPhase, Halts
    <3>2. ~AtEnd' /\ FootToRise' /\ TicksToEnd' = 2 * Quarter
      BY <1>1, <3>1 DEF AtEnd, Undecided, FootToRise, TicksToEnd,
                        EndIsZero
    <3>3. CASE time = 0 \/ ~prev
      <4>1. EndsToPass = 1
        BY <2>1, <2>3, <3>3 DEF EndsToPass
      <4>2. EndsToPass' = 0
        BY <3>1, <3>2, <3>3 DEF EndsToPass, Cleared
      <4> QED
        BY <2>1, <3>2, <4>1, <4>2 DEF GaitLeft
    <3>4. CASE time # 0 /\ prev
      <4>1. EndsToPass = 2
        BY <2>1, <2>3, <3>4 DEF EndsToPass
      <4>2. EndIsZero'
        BY <1>1, <3>1, <3>2, <3>4 DEF EndIsZero
      <4>3. EndsToPass' = 1
        BY <3>1, <3>2, <3>4, <4>2 DEF EndsToPass, Cleared
      <4> QED
        BY <2>1, <3>2, <4>1, <4>3 DEF GaitLeft
    <3> QED
      BY <3>3, <3>4
  <2> QED
    BY <2>2, <2>3
<1>2. CASE time \notin {0, 2 * Quarter}
  <2>1. /\ TicksToEnd' = TicksToEnd /\ (EndIsZero' <=> EndIsZero)
        /\ prev' = prev
    BY <1>2 DEF ProcessPhase, AtEnd, TicksToEnd, EndIsZero
  <2>2. (IF FootToRise THEN param ELSE amp)'
          = (IF FootToRise THEN param ELSE amp)
    BY <1>2 DEF ProcessPhase, AtEnd, Undecided, FootToRise
  <2>3. EndsToPass' = EndsToPass
    BY <2>1, <2>2 DEF EndsToPass
  <2> QED
    BY <2>1, <2>3, GaitBounded DEF GaitLeft, GaitBound
<1> QED
  BY <1>1, <1>2

\* ... and each tick of the clock takes one away.
LEMMA TickTakesOne ==
  ASSUME IInv, Advance, real
  PROVE  GaitLeft' < GaitLeft
<1> USE DEF IInv, TypeOK, Period, HalfPeriod
<1>1. /\ pc = "advance" /\ pc' = "idle" /\ time' = After(time)
      /\ param' = param /\ amp' = amp /\ (time' # 0 => prev' = prev)
  BY DEF Advance
<1>2. TicksToEnd' = TicksToEnd - 1
  BY <1>1 DEF TicksToEnd, EndIsZero, AtEnd, Undecided, After
<1>3. EndIsZero' <=> EndIsZero
  BY <1>1 DEF EndIsZero, AtEnd, Undecided, After
<1>4. FootToRise' <=> FootToRise
  BY <1>1 DEF FootToRise, AtEnd, Undecided, After
<1>5. time' = 0 => EndIsZero'
  BY <1>1 DEF EndIsZero, AtEnd, Undecided
<1>6. EndsToPass' = EndsToPass
  BY <1>1, <1>3, <1>4, <1>5 DEF EndsToPass
<1>7. TicksToEnd \in Int
  BY DEF TicksToEnd
<1>8. 2 * Quarter * EndsToPass \in Int
  BY DEF EndsToPass
<1> QED
  BY <1>2, <1>6, <1>7, <1>8 DEF GaitLeft

Bounds == GaitBound /\ MotionBound

\* The rows of the initial pose pass one by one; the last leaves the gait, if one was
\* started meanwhile.
LEMMA PoseStepKeeps ==
  ASSUME IInv, Bounds, Bounds', PoseStep
  PROVE  Contract!Process
<1> USE DEF IInv, TypeOK
<1>1. /\ state = "InitPose" /\ state' \in {"InitPose", "Ready"}
      /\ state' = "Ready" <=> count + 1 >= PoseSteps
      /\ pc = "idle" /\ pc' = "advance" /\ count' = count + 1
      /\ real' = real /\ ctrl' = ctrl /\ enabled' = enabled /\ heard' = heard
  BY DEF PoseStep
<1>2. count < PoseSteps
  BY <1>1 DEF RowsLeft
<1>3. MotionLeft > 0
  BY <1>1 DEF Bounds, MotionBound, Running
<1>4. ~ctrl => MotionLeft' <= MotionLeft
  <2> SUFFICES ASSUME ~ctrl PROVE MotionLeft' <= MotionLeft
    OBVIOUS
  <2>1. MotionLeft = PoseSteps - count + (IF real THEN 3 * HalfPeriod ELSE 0)
    BY <1>1 DEF MotionLeft, PoseLeft, Running
  <2>2. CASE state' = "InitPose"
    <3>1. PoseLeft' = PoseSteps - count
      BY <1>1 DEF PoseLeft
    <3>2. MotionLeft' = PoseLeft' + (IF real THEN 3 * HalfPeriod ELSE 0)
      BY <1>1, <2>2 DEF MotionLeft, Running
    <3>3. MotionLeft' = MotionLeft
      BY <2>1, <3>1, <3>2
    <3> QED
      BY <3>3 DEF Bounds, MotionBound
  <2>3. CASE state' = "Ready" /\ real
    <3>1. MotionLeft' = GaitLeft'
      BY <1>1, <2>3 DEF MotionLeft, Running
    <3>2. GaitLeft' \in 1 .. 3 * HalfPeriod + 1
      BY DEF Bounds, GaitBound
    <3>3. 3 * HalfPeriod + 1 <= MotionLeft
      BY <1>2, <2>1, <2>3 DEF HalfPeriod
    <3> QED
      BY <3>1, <3>2, <3>3 DEF Bounds, MotionBound, HalfPeriod
  <2>4. CASE state' = "Ready" /\ ~real
    <3>1. MotionLeft' = 0
      BY <1>1, <2>4 DEF MotionLeft, Running
    <3> QED
      BY <1>3, <3>1 DEF Bounds, MotionBound
  <2> QED
    BY <1>1, <2>2, <2>3, <2>4
<1>5. MotionLeft' \in Contract!WithinProcess
  BY <1>1, <1>3, <1>4 DEF Bounds, MotionBound, Contract!WithinProcess
<1>6. MotionLeft' > 0 <=> state' = "InitPose" \/ real'
  BY DEF Bounds, MotionBound, Running
<1>7. PoseOfItsOwn' = Contract!Settled(MotionLeft')
  BY <1>1, <1>6 DEF PoseOfItsOwn, Contract!Settled
<1> QED
  BY <1>1, <1>5, <1>7 DEF Contract!Process

\* A part of process() that moves nothing, or ends what moves.
LEMMA WithinProcessKeeps ==
  ASSUME IInv, Orderly, Bounds, Bounds',
         BeginGait \/ ProcessPhase \/ Halt
  PROVE  Contract!Process
<1> USE DEF IInv, TypeOK
<1>1. /\ state' = state /\ ctrl' = ctrl /\ enabled' = enabled /\ heard' = heard /\ pc' # "idle"
      /\ real' = real \/ real' = FALSE
      /\ state # "InitPose"
  BY DEF BeginGait, ProcessPhase, Halt, moduleVars, Orderly
<1>2. ASSUME real', ~ctrl PROVE MotionLeft' <= MotionLeft
  <2>1. MotionLeft' = GaitLeft' /\ MotionLeft = GaitLeft
    BY <1>1, <1>2 DEF MotionLeft, Running
  <2>2. CASE BeginGait
    <3>1. GaitLeft' = GaitLeft
      BY <2>2 DEF BeginGait, gaitVars, GaitLeft, EndsToPass,
         TicksToEnd, EndIsZero, FootToRise, AtEnd, Undecided
    <3> QED
      BY <2>1, <3>1 DEF Bounds, GaitBound
  <2>3. CASE ProcessPhase
    BY <1>2, <2>1, <2>3, PhaseKeepsLeft
  <2>4. CASE Halt
    BY <1>2, <2>4 DEF Halt
  <2> QED
    BY <2>2, <2>3, <2>4
<1>3. /\ MotionLeft > 0 <=> real
      /\ MotionLeft' > 0 <=> real'
  BY <1>1 DEF Bounds, MotionBound, Running
<1>4. ~real' => MotionLeft' = 0
  BY <1>3 DEF Bounds, MotionBound
<1>5. MotionLeft' \in Contract!WithinProcess
  BY <1>1, <1>2, <1>3, <1>4 DEF Bounds, MotionBound, Contract!WithinProcess
<1>6. \/ PoseOfItsOwn' = Contract!Settled(MotionLeft')
      \/ PoseOfItsOwn = "due" /\ PoseOfItsOwn' = "due"
  BY <1>1 DEF PoseOfItsOwn, Contract!Settled
<1> QED
  BY <1>1, <1>5, <1>6 DEF Contract!Process

\* The legs: a module that was just enabled may begin its initial pose here, under a gait
\* or by itself.
LEMMA ComputeLegsKeeps ==
  ASSUME IInv, Orderly, Bounds, Bounds', ComputeLegs
  PROVE  Contract!Process
<1> USE DEF IInv, TypeOK
<1>1. /\ pc = "legs" /\ pc' = "advance" /\ state # "InitPose"
      /\ ctrl' = ctrl /\ real' = real /\ enabled' = enabled /\ heard' = heard
      /\ \/ state = "Enable" /\ state' = "InitPose"
         \/ state' = "Ready"
  BY DEF ComputeLegs, Orderly
<1>2. /\ MotionLeft > 0 <=> real
      /\ MotionLeft' > 0 <=> state' = "InitPose" \/ real
  BY <1>1 DEF Bounds, MotionBound, Running
<1>3. ASSUME state # "Enable", real, ~ctrl PROVE MotionLeft' = MotionLeft
  <2>1. GaitLeft' = GaitLeft
    BY <1>1 DEF ComputeLegs, GaitLeft, EndsToPass, TicksToEnd,
       EndIsZero, FootToRise, AtEnd, Undecided
  <2> QED
    BY <1>1, <1>3, <2>1 DEF MotionLeft, Running
<1>4. MotionLeft' \in Contract!WithinProcess
  BY <1>1, <1>2, <1>3 DEF Bounds, MotionBound, Contract!WithinProcess, PoseOfItsOwn
<1>5. PoseOfItsOwn' = Contract!Settled(MotionLeft')
  BY <1>1, <1>2 DEF Bounds, MotionBound, PoseOfItsOwn, Contract!Settled
<1> QED
  BY <1>1, <1>4, <1>5 DEF Contract!Process

\* The end of process(), where the clock is advanced: one call less is left, of the pose
\* or of the gait.
LEMMA AdvanceKeeps ==
  ASSUME IInv, Orderly, Bounds, Bounds', Advance
  PROVE  Contract!EndProcess
<1> USE DEF IInv, TypeOK
<1>1. /\ pc = "advance" /\ pc' = "idle" /\ state' = state /\ state # "Enable"
      /\ ctrl' = ctrl /\ real' = real /\ enabled' = enabled /\ count' = count
      /\ heard' = heard
  BY DEF Advance, moduleVars, poseVars, Orderly
<1>2. /\ MotionLeft > 0 <=> Running
      /\ MotionLeft' > 0 <=> Running
      /\ ~Running => MotionLeft' = 0
  BY <1>1 DEF Bounds, MotionBound, Running
<1>3. ASSUME Running, ~ctrl PROVE MotionLeft' < MotionLeft
  <2>1. CASE state = "InitPose"
    <3>1. PoseLeft = PoseSteps - count + 1 /\ PoseLeft' = PoseSteps - count
      BY <1>1 DEF PoseLeft
    <3>2. /\ MotionLeft = PoseLeft + (IF real THEN 3 * HalfPeriod ELSE 0)
          /\ MotionLeft' = PoseLeft' + (IF real THEN 3 * HalfPeriod ELSE 0)
      BY <1>1, <1>3, <2>1 DEF MotionLeft, Running
    <3> QED
      BY <3>1, <3>2 DEF HalfPeriod
  <2>2. CASE state # "InitPose"
    <3>1. real /\ MotionLeft = GaitLeft /\ MotionLeft' = GaitLeft'
      BY <1>1, <1>3, <2>2 DEF MotionLeft, Running
    <3> QED
      BY <3>1, TickTakesOne
  <2> QED
    BY <2>1, <2>2
<1>4. MotionLeft' \in Contract!AfterProcess
  BY <1>1, <1>2, <1>3 DEF Bounds, MotionBound, Contract!AfterProcess,
                          Contract!WithinProcess
<1>5. PoseOfItsOwn' = Contract!Settled(MotionLeft')
  BY <1>1, <1>2 DEF Running, PoseOfItsOwn, Contract!Settled
<1> QED
  BY <1>1, <1>4, <1>5 DEF Contract!EndProcess

\* A start is a command, which the module takes in motion as well.
LEMMA StartKeeps ==
  ASSUME IInv, Start
  PROVE  Contract!Command
<1>1. /\ heard = "start" /\ heard' = "no" /\ ctrl' = TRUE /\ real' = TRUE
      /\ UNCHANGED <<enabled, state, pc>>
  BY DEF Start, moduleVars
<1>2. MotionLeft' = LongestStop
  BY <1>1 DEF MotionLeft, Running
<1>3. PoseOfItsOwn' = IF PoseOfItsOwn = "due" THEN "due" ELSE "no"
  BY <1>1 DEF PoseOfItsOwn
<1> QED
  BY <1>1, <1>2, <1>3 DEF Contract!Command

\* A start that is heard moves nothing yet; the controller sees no stop that is.
LEMMA HearKeeps ==
  ASSUME IInv, NEW c \in {"start", "stop"}, Hear(c)
  PROVE  Contract!Hear \/ UNCHANGED Contract!vars
<1>1. enabled /\ heard = "no" /\ heard' = c
  BY DEF Hear
<1>2. /\ UNCHANGED <<enabled, state, ctrl, real, pc, count>>
      /\ UNCHANGED gaitVars
  BY DEF Hear, moduleVars, poseVars
<1>3. GaitLeft' = GaitLeft /\ PoseLeft' = PoseLeft
  BY <1>2 DEF gaitVars, GaitLeft, EndsToPass, TicksToEnd, EndIsZero, FootToRise, AtEnd,
              Undecided, PoseLeft
<1>4. MotionLeft' = MotionLeft /\ PoseOfItsOwn' = PoseOfItsOwn
  BY <1>2, <1>3 DEF MotionLeft, Running, PoseOfItsOwn
<1> QED
  BY <1>1, <1>2, <1>4 DEF Contract!Hear, Contract!vars

\* Where a stop falls, be it a client's or the handover's, decides how long the motion
\* goes on.
LEMMA StopKeeps ==
  ASSUME IInv, Bounds, Bounds', Stop \/ Retire
  PROVE  Contract!Stop
<1> USE DEF IInv, TypeOK
<1>1. /\ ctrl' = FALSE /\ UNCHANGED <<enabled, state, real, pc, count>>
      /\ UNCHANGED gaitVars
      /\ (heard = "start")' = (heard = "start")
  BY DEF Stop, Retire, moduleVars, poseVars
<1>2. Running' <=> Running
  BY <1>1 DEF Running
<1>3. ~ctrl => MotionLeft' = MotionLeft
  BY <1>1 DEF gaitVars, MotionLeft, Running, PoseLeft, GaitLeft,
     EndsToPass, TicksToEnd, EndIsZero, FootToRise, AtEnd,
     Undecided
<1>4. ctrl /\ Running => MotionLeft = LongestStop
  BY DEF MotionLeft
<1>5. MotionLeft' \in Contract!AfterStop
  BY <1>2, <1>3, <1>4 DEF Bounds, MotionBound, Contract!AfterStop
<1>6. PoseOfItsOwn' = PoseOfItsOwn
  BY <1>1 DEF PoseOfItsOwn
<1> QED
  BY <1>1, <1>5, <1>6 DEF Contract!Stop

\* Disabling ends an initial pose that the module took by itself, and no gait.
LEMMA DisableKeeps ==
  ASSUME IInv, Bounds, Bounds', Disable
  PROVE  Contract!Disable
<1> USE DEF IInv, TypeOK
<1>1. /\ enabled' = FALSE /\ state' = "Disable"
      /\ UNCHANGED <<ctrl, real, heard, pc, count>> /\ UNCHANGED gaitVars
  BY DEF Disable, poseVars
<1>2. GaitLeft' = GaitLeft
  BY <1>1 DEF gaitVars, GaitLeft, EndsToPass, TicksToEnd, EndIsZero,
     FootToRise, AtEnd, Undecided
<1>3. ~real => MotionLeft' = 0
  BY <1>1 DEF MotionLeft, Running
<1>4. ASSUME real PROVE MotionLeft' \in 0 .. MotionLeft
  <2>1. CASE ctrl
    BY <1>1, <1>4, <2>1 DEF MotionLeft, Running, Bounds, MotionBound
  <2>2. CASE ~ctrl
    <3>1. MotionLeft' = GaitLeft
      BY <1>1, <1>2, <1>4, <2>2 DEF MotionLeft, Running
    <3>2. CASE state # "InitPose"
      BY <1>4, <2>2, <3>1, <3>2 DEF MotionLeft, Running, Bounds, GaitBound
    <3>3. CASE state = "InitPose"
      <4>1. MotionLeft = PoseLeft + 3 * HalfPeriod
        BY <1>4, <2>2, <3>3 DEF MotionLeft, Running
      <4>2. PoseLeft \in Int /\ PoseLeft > 0
        BY <3>3 DEF PoseLeft, RowsLeft
      <4> QED
        BY <3>1, <4>1, <4>2 DEF Bounds, GaitBound, HalfPeriod
    <3> QED
      BY <3>2, <3>3
  <2> QED
    BY <2>1, <2>2
<1>5. MotionLeft' \in Contract!AfterDisable
  BY <1>3, <1>4 DEF Contract!AfterDisable, PoseOfItsOwn, Bounds, MotionBound
<1> QED
  BY <1>1, <1>5 DEF Contract!Disable, PoseOfItsOwn

\* The module is enabled between two process() calls, with its initial pose due.
LEMMA EnableKeeps ==
  ASSUME IInv, Orderly, Enable
  PROVE  Contract!Enable
<1> USE DEF IInv, TypeOK
<1>1. /\ ~enabled /\ enabled' = TRUE /\ pc = "idle"
      /\ state # "InitPose" /\ state' = "Enable"
      /\ UNCHANGED <<ctrl, real, heard, pc>> /\ UNCHANGED gaitVars
  BY DEF Enable, Orderly
<1>2. MotionLeft' = MotionLeft
  BY <1>1 DEF gaitVars, MotionLeft, Running, GaitLeft, EndsToPass,
     TicksToEnd, EndIsZero, FootToRise, AtEnd, Undecided
<1>3. PoseOfItsOwn' = Contract!AfterEnable
  BY <1>1 DEF PoseOfItsOwn, Contract!AfterEnable
<1> QED
  BY <1>1, <1>2, <1>3 DEF Contract!Enable

\* What the controller cannot see: parameters sent to a module that is not stopped, and
\* the wait of its own thread.
LEMMA RestUnseen ==
  ASSUME Considerate, IInv,
         \/ \E p \in SUBSET Moves : SetParam(p)
         \/ SeenAtRest \/ UNCHANGED vars
  PROVE  UNCHANGED Contract!vars
<1> USE DEF Contract!vars, PoseOfItsOwn, MotionLeft, Running
<1>1. ASSUME NEW p \in SUBSET Moves, SetParam(p) PROVE UNCHANGED Contract!vars
  BY <1>1 DEF SetParam, moduleVars, poseVars
<1>2. CASE SeenAtRest \/ UNCHANGED vars
  <2>1. /\ UNCHANGED <<enabled, state, ctrl, real, heard, pc, count>>
        /\ UNCHANGED gaitVars
    BY <1>2 DEF SeenAtRest, vars, moduleVars, poseVars
  <2>2. GaitLeft' = GaitLeft /\ PoseLeft' = PoseLeft
    BY <2>1 DEF gaitVars, GaitLeft, EndsToPass, TicksToEnd,
       EndIsZero, FootToRise, AtEnd, Undecided, PoseLeft
  <2> QED
    BY <2>1, <2>2
<1> QED
  BY <1>1, <1>2

LEMMA ContractStep ==
  ASSUME Considerate, IInv, IInv', Orderly, [Next]_vars
  PROVE  [Contract!Next]_(Contract!vars)
<1>1. Bounds
  BY GaitBounded, MotionBounded DEF Bounds, IInv
<1>2. Bounds'
  <2>1. (TypeOK /\ RowsLeft => GaitBound /\ MotionBound)'
    BY GaitBounded, MotionBounded, PTL
  <2> QED
    BY <2>1 DEF Bounds, IInv
<1>3. CASE Timer
  BY <1>1, <1>2, <1>3, PoseStepKeeps, WithinProcessKeeps, ComputeLegsKeeps, AdvanceKeeps
     DEF Timer, Contract!Next
<1>4. CASE Client \/ Setter \/ UNCHANGED vars
  <2>1. CASE Hear("start") \/ Hear("stop")
    BY <2>1, HearKeeps DEF Contract!Next
  <2> QED
    BY <1>1, <1>2, <1>4, <2>1, StartKeeps, StopKeeps, DisableKeeps, EnableKeeps, RestUnseen
       DEF Client, Setter, Contract!Next
<1> QED
  BY <1>3, <1>4 DEF Next

\* The walking module is what the controller takes it for: with clients that send no
\* parameters to a gait that has been stopped, it moves only after a start or, once, by
\* itself after it was enabled, and each process() call after a stop brings it nearer to
\* rest, wherever in the period and in process() the stop falls, for every period and
\* every number of rows of the initial pose.
THEOREM GaitKeepsContract ==
  ASSUME Considerate
  PROVE  Spec => KeepsContract
<1>1. Init => Orderly /\ Contract!Init
  BY DEF Init, Orderly, Contract!Init, PoseOfItsOwn, MotionLeft,
         Running
<1>2. IInv /\ IInv' /\ Orderly /\ [Next]_vars
        => Orderly' /\ [Contract!Next]_(Contract!vars)
  BY OrderlyStep, ContractStep
<1> QED
  BY <1>1, <1>2, InvariantHolds, PTL DEF Spec, KeepsContract, Contract!Spec
=============================================================================
