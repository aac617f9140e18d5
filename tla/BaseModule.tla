----------------------------- MODULE BaseModule -----------------------------
(***************************************************************************)
(* op3_base_module: the move to the initial pose.                          *)
(*                                                                         *)
(* The ROS thread takes "ini_pose", asks the controller for the joints,    *)
(* waits until it has them, and starts a thread that computes the          *)
(* trajectory; the timer thread plays it. The controller enables and       *)
(* disables the module. Nothing is locked.                                 *)
(*                                                                         *)
(* One joint stands for all: the initial pose is 0, it is Far from there   *)
(* at most, and a trajectory moves by one per control cycle.               *)
(***************************************************************************)
EXTENDS Naturals

CONSTANTS
  Far,       \* all_time_steps_ is Far + 1
  Exclusive, \* clients ask for nothing else until the initial pose is reached
  Overlap    \* whether threads may meet inside what takes microseconds: the module
             \* be disabled in process(), or process() run between two assignments

ASSUME FarAssumption == Far \in Nat \ {0}
ASSUME ClientAssumption == {Exclusive, Overlap} \subseteq BOOLEAN

VARIABLES
  enabled,   \* enable_
  known,     \* has_goal_joints_
  retiring,  \* whether the set-module thread has seen isRunning() = false
  moving,    \* is_moving_
  cnt,       \* cnt_
  trajectory,\* where calc_joint_tra_ starts from
  seen,      \* goal_joint_state_
  goal,      \* the joint's goal position in the controller
  pc,        \* where the timer thread is in process()
  row,       \* the value of cnt_ it has read
  ros,       \* where the ROS thread is in initPoseMsgCallback()
  worker,    \* where tra_gene_thread_ is
  asked      \* whether the controller has a request for the base module

timerVars  == <<pc, row, seen, goal>>
moduleVars == <<enabled, known, retiring>>
moveVars   == <<moving, cnt, trajectory>>
vars == <<timerVars, moduleVars, moveVars, ros, worker, asked>>

Goals == 0 .. Far
Row(from, r) == IF r >= from THEN 0 ELSE from - r

Init ==
  /\ enabled = FALSE /\ known = FALSE /\ retiring = FALSE
  /\ moving = FALSE /\ cnt = 0 /\ trajectory = 0
  /\ seen = 0 /\ goal \in Goals
  /\ pc = "idle" /\ row = 0 /\ ros = "idle" /\ worker = "none" /\ asked = FALSE

\* Nothing is under way that an "ini_pose" started.
Quiet == ros = "idle" /\ worker = "none" /\ ~moving

----------------------------------------------------------------------------
(* The ROS thread.                                                         *)

\* callServiceSettingModule() does not wait for the answer; when the service is not
\* available it asks for nothing, and the callback waits all the same.
Message ==
  /\ ros = "idle" /\ ~moving
  /\ Exclusive => Quiet /\ ~retiring
  /\ ros' = "wait" /\ asked' \in {asked, TRUE}
  /\ UNCHANGED <<timerVars, moduleVars, moveVars, worker>>

MessageRefused ==
  /\ ros = "idle" /\ moving
  /\ UNCHANGED vars

\* Mutant: goes on without the goal.
HaveJointsEnabled ==
  /\ ros = "wait" /\ enabled
  /\ ros' = "join"
  /\ UNCHANGED <<timerVars, moduleVars, moveVars, worker, asked>>
HaveJoints ==
  /\ ros = "wait" /\ enabled /\ known
  /\ ros' = "join"
  /\ UNCHANGED <<timerVars, moduleVars, moveVars, worker, asked>>

\* join() of the previous thread, then the next.
Spawn ==
  /\ ros = "join" /\ worker = "none"
  /\ ros' = "idle" /\ worker' = "generate"
  /\ UNCHANGED <<timerVars, moduleVars, moveVars, asked>>

----------------------------------------------------------------------------
(* tra_gene_thread_.                                                       *)

Generate ==
  /\ worker = "generate"
  /\ trajectory' = seen
  /\ worker' = "move"
  /\ UNCHANGED <<timerVars, moduleVars, moving, cnt, ros, asked>>

SetMoving ==
  /\ worker = "move"
  /\ moving' = TRUE
  /\ worker' = "count"
  /\ UNCHANGED <<timerVars, moduleVars, cnt, trajectory, ros, asked>>

ResetCount ==
  /\ worker = "count"
  /\ cnt' = 0
  /\ worker' = "none"
  /\ UNCHANGED <<timerVars, moduleVars, moving, trajectory, ros, asked>>

Worker == Generate \/ SetMoving \/ ResetCount

----------------------------------------------------------------------------
(* The timer thread: process().                                            *)

\* The goals are read, and then has_goal_joints_ is set.
ReadGoals ==
  /\ pc = "idle" /\ enabled
  /\ Overlap \/ worker # "count"
  /\ seen' = goal
  /\ pc' = "known"
  /\ UNCHANGED <<row, goal, moduleVars, moveVars, ros, worker, asked>>

GoalsKnown ==
  /\ pc = "known"
  /\ known' = TRUE
  /\ pc' = "play"
  /\ UNCHANGED <<row, seen, goal, enabled, retiring, moveVars, ros, worker, asked>>

\* The next row, if there is a move, becomes the goal.
Play ==
  /\ pc = "play"
  /\ IF moving
     THEN seen' = Row(trajectory, cnt) /\ row' = cnt /\ pc' = "count"
     ELSE UNCHANGED <<seen, row>> /\ pc' = "end"
  /\ goal' = seen'
  /\ UNCHANGED <<moduleVars, moveVars, ros, worker, asked>>

\* cnt_++, of a value loaded before or after the other thread's assignment.
Count ==
  /\ pc = "count"
  /\ cnt' \in {row + 1, cnt + 1}
  /\ pc' = "end"
  /\ UNCHANGED <<row, seen, goal, moduleVars, moving, trajectory, ros, worker, asked>>

\* Mutant: one row too many.
EndLate ==
  /\ pc = "end"
  /\ IF cnt > Far + 1 /\ moving
     THEN moving' = FALSE /\ pc' = "reset"
     ELSE UNCHANGED moving /\ pc' = "idle"
  /\ UNCHANGED <<row, seen, goal, moduleVars, cnt, trajectory, ros, worker, asked>>
End ==
  /\ pc = "end"
  /\ IF cnt >= Far + 1 /\ moving
     THEN moving' = FALSE /\ pc' = "reset"
     ELSE UNCHANGED moving /\ pc' = "idle"
  /\ UNCHANGED <<row, seen, goal, moduleVars, cnt, trajectory, ros, worker, asked>>

\* cnt_ = 0 comes after is_moving_ = false.
EndReset ==
  /\ pc = "reset"
  /\ cnt' = 0
  /\ pc' = "idle"
  /\ UNCHANGED <<row, seen, goal, moduleVars, moving, trajectory, ros, worker, asked>>

Timer == ReadGoals \/ GoalsKnown \/ Play \/ Count \/ End \/ EndReset

----------------------------------------------------------------------------
(* The controller and the other modules.                                   *)

Grant ==
  /\ asked /\ pc = "idle" /\ ~retiring
  /\ asked' = FALSE /\ enabled' = TRUE
  /\ UNCHANGED <<timerVars, known, retiring, moveVars, ros, worker>>

\* Another module is given the joints: isRunning() is seen to be false, later the
\* module is disabled.
SeenAtRest ==
  /\ enabled /\ ~moving /\ ~retiring
  /\ Exclusive => Quiet
  /\ retiring' = TRUE
  /\ UNCHANGED <<timerVars, enabled, known, moveVars, ros, worker, asked>>

\* Mutant: onModuleDisable() keeps has_goal_joints_.
DisableKept ==
  /\ retiring /\ (Overlap \/ pc = "idle")
  /\ enabled' = FALSE /\ retiring' = FALSE
  /\ UNCHANGED <<timerVars, known, moveVars, ros, worker, asked>>
Disable ==
  /\ retiring /\ (Overlap \/ pc = "idle")
  /\ enabled' = FALSE /\ known' = FALSE /\ retiring' = FALSE
  /\ UNCHANGED <<timerVars, moveVars, ros, worker, asked>>

\* ... and that module moves them, in a later pass of the timer thread.
MoveElsewhere ==
  /\ ~enabled /\ pc = "idle"
  /\ goal' \in Goals
  /\ UNCHANGED <<pc, row, seen, moduleVars, moveVars, ros, worker, asked>>

Controller == Grant \/ SeenAtRest \/ Disable \/ MoveElsewhere

----------------------------------------------------------------------------
Next == Message \/ MessageRefused \/ HaveJoints \/ Spawn \/ Worker \/ Timer \/ Controller

Spec == Init /\ [][Next]_vars

----------------------------------------------------------------------------
(* Properties.                                                             *)

\* Each variable ranges over the values the code can give it.
TypeOK ==
  /\ {enabled, known, retiring, moving, asked} \subseteq BOOLEAN
  /\ {cnt, row} \subseteq 0 .. Far + 1
  /\ {trajectory, seen, goal} \subseteq Goals
  /\ pc \in {"idle", "known", "play", "count", "end", "reset"}
  /\ ros \in {"idle", "wait", "join"}
  /\ worker \in {"none", "generate", "move", "count"}

\* The row that is played is a row of calc_joint_tra_, however the assignments of
\* the two threads to is_moving_ and cnt_ fall together.
RowExists == pc = "play" /\ moving => cnt <= Far

\* The joint never jumps: a goal the module sets is a row of the trajectory, at most one
\* step away from the goal the joint had, wherever other modules had left it.
NoJump ==
  [][pc = "play" => RowExists /\ (goal' - goal \in {0, 1} \/ goal - goal' \in {0, 1})]_vars

\* "wait for changing the module to base_module and getting the goal position":
\* the trajectory is computed from the goal the joint has.
GoalPositionKnown == [][ros = "wait" /\ ros' = "join" => seen = goal]_vars
=============================================================================
