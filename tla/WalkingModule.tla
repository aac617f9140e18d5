---------------------------- MODULE WalkingModule ----------------------------
(***************************************************************************)
(* op3_walking_module: the gait's clock, its start and stop, and the move  *)
(* to the initial pose after the module has been enabled.                  *)
(*                                                                         *)
(* The timer thread calls process(); the module's own ROS thread takes     *)
(* commands and parameters; the set-module thread stops, awaits, disables  *)
(* and enables the module. Nothing is locked.                              *)
(*                                                                         *)
(* The four phases lie at the quarters of the period, whatever the period  *)
(* is, and time_ is set to the phase it meets: it is counted in ticks of   *)
(* Quarter to the quarter. Of an amplitude only whether it is zero counts. *)
(***************************************************************************)
EXTENDS Naturals

CONSTANTS
  JointCount,   \* result_.size()
  Quarter,      \* control cycles in a quarter of the period
  PoseSteps,    \* rows of calc_joint_tra_
  Patient,      \* clients start to walk only when the initial pose is reached
  Considerate   \* ... and leave a module alone that is stopped or being retired

ASSUME JointCountAssumption == JointCount \in Nat \ {0}
ASSUME QuarterAssumption == Quarter \in Nat \ {0}
ASSUME PoseStepsAssumption == PoseSteps \in Nat \ {0}
ASSUME ClientAssumption == {Patient, Considerate} \subseteq BOOLEAN

VARIABLES
  enabled,    \* enable_
  state,      \* walking_state_
  ctrl,       \* ctrl_running_
  real,       \* real_running_
  time,       \* time_
  param,      \* the movement amplitudes of walking_param_ that are not zero
  amp,        \* x_, y_ and a_move_amplitude_, those that are not zero
  prev,       \* previous_x_move_amplitude_ # 0
  count,      \* init_pose_count_
  led,        \* the joints whose target_position_ is where they should go
  shown,      \* the time_ the legs were last computed for
  heard,      \* the command that has found the module enabled and is to act, or "no"
  pc,         \* where the timer thread is in process()
  retiring    \* where the set-module thread is in retiring the module

moduleVars == <<enabled, state, retiring>>
gaitVars   == <<time, param, amp, prev, shown>>
poseVars   == <<count, led>>
commandVars == <<ctrl, real, heard>>
vars == <<moduleVars, gaitVars, poseVars, commandVars, pc>>

Joints == 0 .. JointCount - 1      \* the indices of joint_table_
Moves  == {"x", "turn"}            \* forward; sideward or round
Period == 4 * Quarter

RunningPose == state = "InitPose"       \* mutant: forgets the gait
Running == real \/ state = "InitPose"   \* isRunning()

Init ==
  /\ enabled = FALSE /\ state = "Ready" /\ retiring = "no"
  /\ ctrl = FALSE /\ real = FALSE /\ heard = "no"
  /\ time = 0 /\ param = {} /\ amp = {} /\ prev = FALSE /\ shown = 0
  /\ count = 0 /\ led = {}
  /\ pc = "idle"

----------------------------------------------------------------------------
(* The timer thread: process().                                            *)

\* The joints one row of the trajectory is written to: the loop goes from 1 to
\* result_.size(), the table from 0 (the element past its end lies in the padding
\* of the matrix's allocation).
Written == (1 .. JointCount) \cap Joints

PoseStep ==
  /\ pc = "idle" /\ enabled /\ state = "InitPose"
  /\ count' = count + 1
  /\ led' = IF count' >= PoseSteps THEN led \cup Written ELSE led
  /\ state' = IF count' >= PoseSteps THEN "Ready" ELSE state
  /\ pc' = "advance"
  /\ UNCHANGED <<enabled, retiring, gaitVars, commandVars>>

BeginGait ==
  /\ pc = "idle" /\ enabled /\ state \in {"Ready", "Enable"}
  /\ pc' = "phase"
  /\ UNCHANGED <<moduleVars, gaitVars, poseVars, commandVars>>

\* processPhase(): at both ends of the double support a stopped gait comes to
\* rest if its amplitudes are zero, or else its parameters are cleared; in between,
\* when a foot is highest, the parameters become the amplitudes.
\* Mutants: the parameters are not cleared; the amplitudes are not looked at.
ClearedNever == param
Cleared == IF time = 0 \/ ~prev THEN {} ELSE {"x"}

HaltsMoving == ~ctrl
Halts == ~ctrl /\ amp = {}

ProcessPhase ==
  /\ pc = "phase"
  /\ \/ /\ time \in {0, 2 * Quarter}
        /\ pc' = IF Halts THEN "halt" ELSE "legs"
        /\ IF ~ctrl /\ ~Halts
           THEN param' = Cleared /\ prev' = (prev /\ time # 0)
           ELSE UNCHANGED <<param, prev>>
        /\ UNCHANGED amp
     \/ /\ time \in {Quarter, 3 * Quarter}
        /\ pc' = "legs" /\ amp' = param
        /\ UNCHANGED <<param, prev>>
     \/ /\ time \notin {0, Quarter, 2 * Quarter, 3 * Quarter}
        /\ pc' = "legs"
        /\ UNCHANGED <<param, amp, prev>>
  /\ UNCHANGED <<moduleVars, time, shown, poseVars, commandVars>>

\* real_running_ = false: a command may have come in between.
Halt ==
  /\ pc = "halt"
  /\ real' = FALSE
  /\ pc' = "legs"
  /\ UNCHANGED <<moduleVars, gaitVars, poseVars, ctrl, heard>>

\* The legs for time_. The first time after the module has been enabled, joints
\* that are far from them are first led there; whatever walking_state_ was made
\* meanwhile is overwritten.
ComputeLegs ==
  /\ pc = "legs"
  /\ shown' = time
  /\ \/ /\ state = "Enable"
        /\ state' = "InitPose" /\ count' = 0 /\ led' = {}
     \/ state' = "Ready" /\ led' = Joints /\ UNCHANGED count
  /\ pc' = "advance"
  /\ UNCHANGED <<enabled, retiring, time, param, amp, prev, commandVars>>

After(t)     == IF t + 1 >= Period THEN 0 ELSE t + 1

\* The clock runs on with the gait, while the initial pose is taken as well.
Advance ==
  /\ pc = "advance"
  /\ IF real
     THEN time' = After(time) /\ prev' = IF time' = 0 THEN "x" \in param ELSE prev
     ELSE UNCHANGED <<time, prev>>
  /\ pc' = "idle"
  /\ UNCHANGED <<moduleVars, param, amp, shown, poseVars, commandVars>>

Timer == PoseStep \/ BeginGait \/ ProcessPhase \/ Halt \/ ComputeLegs \/ Advance

----------------------------------------------------------------------------
(* The ROS thread.                                                         *)

\* walkingCommandCallback() looks at enable_; the module may be disabled, or process()
\* go on, before startWalking() or stop() has set the flags.
Hear(command) ==
  /\ enabled /\ heard = "no"
  /\ command = "start" => /\ Patient => state = "Ready"
                          /\ Considerate => retiring = "no"
  /\ heard' = command
  /\ UNCHANGED <<moduleVars, gaitVars, poseVars, ctrl, real, pc>>

\* Mutant: time_ is set, as a line commented out in startWalking() once did.
StartFromOne ==
  /\ heard = "start" /\ heard' = "no"
  /\ ctrl' = TRUE /\ real' = TRUE /\ time' = 1
  /\ UNCHANGED <<moduleVars, param, amp, prev, shown, poseVars, pc>>
Start ==
  /\ heard = "start" /\ heard' = "no"
  /\ ctrl' = TRUE /\ real' = TRUE
  /\ UNCHANGED <<moduleVars, gaitVars, poseVars, pc>>

Stop ==
  /\ heard = "stop" /\ heard' = "no"
  /\ ctrl' = FALSE
  /\ UNCHANGED <<moduleVars, gaitVars, poseVars, real, pc>>

\* walking_param_ is replaced whether or not the module is enabled.
SetParam(p) ==
  /\ Considerate => ctrl
  /\ param' = p
  /\ UNCHANGED <<moduleVars, time, amp, prev, shown, poseVars, commandVars, pc>>

Client == Hear("start") \/ Hear("stop") \/ Start \/ Stop \/ \E p \in SUBSET Moves : SetParam(p)

----------------------------------------------------------------------------
(* The set-module thread: stop(), while (isRunning()), setModuleEnable().  *)

Retire ==
  /\ enabled /\ retiring = "no"
  /\ Considerate => heard # "start"
  /\ retiring' = "stop" /\ ctrl' = FALSE
  /\ UNCHANGED <<enabled, state, gaitVars, poseVars, real, heard, pc>>

SeenAtRest ==
  /\ retiring = "stop" /\ ~Running
  /\ retiring' = "seen"
  /\ UNCHANGED <<enabled, state, gaitVars, poseVars, commandVars, pc>>

\* Without the mutex: process() may be under way.
Disable ==
  /\ retiring = "seen"
  /\ enabled' = FALSE /\ state' = "Disable" /\ retiring' = "no"
  /\ UNCHANGED <<gaitVars, poseVars, commandVars, pc>>

\* With the mutex: it is not.
Enable ==
  /\ ~enabled /\ pc = "idle"
  /\ enabled' = TRUE /\ state' = "Enable"
  /\ UNCHANGED <<retiring, gaitVars, poseVars, commandVars, pc>>

Setter == Retire \/ SeenAtRest \/ Disable \/ Enable

----------------------------------------------------------------------------
Next == Timer \/ Client \/ Setter

Spec == Init /\ [][Next]_vars

\* The control cycle keeps running; nobody has to command anything.
FairSpec == Spec /\ WF_vars(Timer)

----------------------------------------------------------------------------
(* Properties.                                                             *)

\* Each variable ranges over the values the code can give it.
TypeOK ==
  /\ {enabled, ctrl, real, prev} \subseteq BOOLEAN
  /\ heard \in {"no", "start", "stop"}
  /\ state \in {"Disable", "Enable", "InitPose", "Ready"}
  /\ {time, shown} \subseteq 0 .. Period - 1
  /\ {param, amp} \subseteq SUBSET Moves
  /\ count \in 0 .. PoseSteps /\ led \subseteq Joints
  /\ pc \in {"idle", "phase", "halt", "legs", "advance"}
  /\ retiring \in {"no", "stop", "seen"}

\* A gait that is not running stands on both feet, with amplitudes that are zero:
\* no stop, however it falls into the period and whatever parameters arrive after
\* it, leaves the robot standing on one leg or in the middle of a stride.
StandsOnBothFeet == ~real => time \in {0, 2 * Quarter} /\ amp = {}

\* The legs go through the period without a jump: each time they are computed it
\* is for the time_ of the last time or the tick after, over stops, restarts and
\* hand-overs to other modules.
GaitContinuous ==
  [][pc = "legs" => time \in {shown, After(shown)}]_vars

\* A module that is enabled does not walk before it is told to: the gait was at
\* rest when the module lost its joints.
EnabledAtRest == state = "Enable" => ~real

\* A stop is obeyed, be it a client's or the handover's that waits for isRunning():
\* the gait comes to rest, and the initial pose ends, unless another start comes or
\* the module is disabled.
StopObeyed == (enabled /\ ~ctrl) ~> (~Running \/ ctrl \/ ~enabled)

\* "make trajecotry for init pose": at its end each joint of the module has been
\* led to the initial pose.
InitPoseReached ==
  [][state = "InitPose" /\ state' = "Ready" => led' = Joints]_vars

\* How long the gait goes on after a stop, in process() calls. It may pass the ends
\* of the double support twice, once to give up what is left of its parameters and
\* once its last stride forward, before it halts at the third. What it will meet at
\* the next one are its parameters, as long as a foot is still to be highest before.
HalfPeriod == 2 * Quarter
Undecided  == pc \in {"idle", "phase", "halt"}   \* processPhase() has not acted on time_
AtEnd      == time \in {0, HalfPeriod} /\ Undecided
EndIsZero  == IF AtEnd THEN time = 0 ELSE time >= HalfPeriod
TicksToEnd == IF AtEnd THEN 0 ELSE IF EndIsZero THEN Period - time ELSE HalfPeriod - time
FootToRise == \/ time \in 0 .. Quarter - 1 \cup HalfPeriod .. 3 * Quarter - 1 /\ ~AtEnd
              \/ time \in {Quarter, 3 * Quarter} /\ Undecided
EndsToPass == IF (IF FootToRise THEN param ELSE amp) = {} THEN 0
              ELSE IF EndIsZero \/ ~prev THEN 1 ELSE 2
GaitLeft   == HalfPeriod * EndsToPass + TicksToEnd + 1

\* The gait is still to come where the initial pose is taken.
PoseLeft    == PoseSteps - count + (IF pc = "advance" THEN 1 ELSE 0)
LongestStop == PoseSteps + 1 + 3 * HalfPeriod
MotionLeft  ==
  IF ~Running THEN 0
  ELSE IF ctrl THEN LongestStop
  ELSE IF state # "InitPose" THEN GaitLeft
  ELSE PoseLeft + (IF real THEN 3 * HalfPeriod ELSE 0)

\* The initial pose, unless a gait was started meanwhile, which outlives it.
PoseOfItsOwn == IF state = "Enable" THEN "due"
                ELSE IF state = "InitPose" /\ ~real THEN "now" ELSE "no"

Contract == INSTANCE MotionModule WITH
  StopTicks <- LongestStop, Braking <- FALSE, Restartable <- TRUE, Settles <- TRUE,
  settling <- PoseOfItsOwn, motion <- MotionLeft, stopping <- ~ctrl,
  heard <- heard = "start", busy <- pc # "idle"

\* The module is what the controller takes it for: it moves only after a start, or once
\* by itself when it has been enabled, and each process() call after a stop brings it
\* nearer to rest, wherever in the period and in process() the stop falls.
KeepsContract == Contract!Spec
=============================================================================
