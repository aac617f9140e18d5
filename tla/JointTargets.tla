---------------------------- MODULE JointTargets ----------------------------
(***************************************************************************)
(* op3_head_control_module and op3_direct_control_module: joints that move *)
(* to a target somebody publishes.                                         *)
(*                                                                         *)
(* In both the ROS thread takes the target and starts a thread that        *)
(* computes a trajectory from where the joint is to be now; the timer      *)
(* thread plays it row by row; tra_lock_ covers the trajectory, but not    *)
(* the flags, the target and the enabling. They differ: the head's thread  *)
(* is detached, the direct control's is joined; disabling clears the       *)
(* head's motion and not the direct control's; the head scans on its own   *)
(* from one corner to the next; direct control holds a joint still that    *)
(* would run into the body.                                                *)
(*                                                                         *)
(* One joint stands for all; it moves by one place per control cycle.      *)
(***************************************************************************)
EXTENDS Integers, Sequences

CONSTANTS
  Far,        \* the places of the joint are 0 .. Far
  Corners,    \* where the scan goes, in turn
  Blocked,    \* places in which the arm is too near to the body
  MaxThreads, \* bound: threads that have not computed their trajectory yet
  Careful,    \* clients send nothing during a hand-over, no scan before the first
              \* cycle, and begin no hand-over over a target not yet begun
  Overlap     \* whether threads may meet inside what takes microseconds

ASSUME FarAssumption == Far \in Nat \ {0}
ASSUME PlacesAssumption == Corners \in Seq(0 .. Far) /\ Corners # <<>> /\ Blocked \subseteq 0 .. Far
ASSUME ThreadsAssumption == MaxThreads \in Nat \ {0}
ASSUME ClientAssumption == Careful \in BOOLEAN /\ Overlap \in BOOLEAN

VARIABLES
  module,   \* which of the two this is; never changes
  enabled,  \* enable_
  known,    \* has_goal_position_ of the head, is_updated_ of direct control
  stopping, \* stop_process_
  moving,   \* is_moving_
  size,     \* tra_size_
  count,    \* tra_count_
  from, to, \* calc_joint_tra_: its first and last row
  target,   \* target_position_
  scan,     \* scan_state_: the corner in Corners, 0 for NoScan
  held,     \* collision_ of the joint
  seen,     \* goal_position_ of the module
  goal,     \* the joint's goal position in the controller
  pc,       \* whether process() has found the module enabled
  ros,      \* where the ROS thread is
  message,  \* the place it was sent
  threads,  \* threads under way to jointTraGeneThread()
  handover, \* where the controller is that takes the joint away
  wanted    \* history: the last target the module accepted and may keep; -1 for none

moduleVars == <<module, enabled, known>>
moveVars   == <<stopping, moving, size, count>>
trajectory == <<from, to>>
jointVars  == <<held, seen, goal>>
rosVars    == <<ros, message>>
vars == <<moduleVars, moveVars, trajectory, target, scan, jointVars, pc, rosVars, threads,
          handover, wanted>>

Places == 0 .. Far
IsHead == module = "head"

\* One row per place, the start's own included.
Rows(a, b)   == (IF a < b THEN b - a ELSE a - b) + 1
Row(a, b, k) == IF a < b THEN a + k ELSE a - k

Init ==
  /\ module \in {"head", "direct"}
  /\ enabled = FALSE /\ known = FALSE
  /\ stopping = FALSE /\ moving = FALSE /\ size = 0 /\ count = 0
  /\ from = 0 /\ to = 0 /\ target = 0 /\ scan = 0
  /\ held = FALSE /\ seen = 0 /\ goal \in Places
  /\ pc = "idle" /\ ros = "idle" /\ message = 0 /\ threads = 0
  /\ handover = "none" /\ wanted = -1

----------------------------------------------------------------------------
(* The ROS thread.                                                         *)

Listens == ros = "idle" /\ enabled /\ threads < MaxThreads /\ (Careful => handover = "none")

\* A joint command. The head is asked for places beyond its limits, too; direct
\* control, which checks no limits, is sent places the joint can take.
Message ==
  /\ Listens
  /\ ros' = "wait" /\ message' \in IF IsHead THEN -1 .. Far + 1 ELSE Places
  /\ wanted' = -1
  /\ UNCHANGED <<moduleVars, moveVars, trajectory, target, scan, jointVars, pc, threads,
                 handover>>

\* checkAngleLimit().
Limited(p) == IF p < 0 THEN 0 ELSE IF p > Far THEN Far ELSE p

\* Both wait for process() to have read the goals, without looking at enable_ again.
Take ==
  /\ ros = "wait" /\ known
  /\ target' = Limited(message)
  /\ ros' = "set"
  /\ UNCHANGED <<moduleVars, moveVars, trajectory, scan, jointVars, pc, message, threads,
                 handover, wanted>>

\* Direct control waits for a hundred cycles.
GiveUp ==
  /\ ros = "wait" /\ ~known /\ ~IsHead
  /\ ros' = "idle"
  /\ UNCHANGED <<moduleVars, moveVars, trajectory, target, scan, jointVars, pc, message,
                 threads, handover, wanted>>

\* A scan ends with the command; the thread is started, and joined in direct control.
\* Mutant: the scan goes on.
SpawnScanning ==
  /\ ros = "set"
  /\ threads' = threads + 1
  /\ ros' = IF IsHead THEN "idle" ELSE "join"
  /\ wanted' = IF enabled /\ handover = "none" THEN target ELSE -1
  /\ UNCHANGED <<moduleVars, moveVars, trajectory, target, scan, jointVars, pc, message, handover>>
Spawn ==
  /\ ros = "set"
  /\ scan' = 0
  /\ threads' = threads + 1
  /\ ros' = IF IsHead THEN "idle" ELSE "join"
  /\ wanted' = IF enabled /\ handover = "none" THEN target ELSE -1
  /\ UNCHANGED <<moduleVars, moveVars, trajectory, target, jointVars, pc, message, handover>>

Join ==
  /\ ros = "join" /\ threads = 0
  /\ ros' = "idle"
  /\ UNCHANGED <<moduleVars, moveVars, trajectory, target, scan, jointVars, pc, message,
                 threads, handover, wanted>>

\* "scan": a corner at random, and generateScanTra().
ScanCommand ==
  /\ Listens /\ IsHead /\ scan = 0
  /\ Careful => known
  /\ scan' \in 1 .. Len(Corners)
  /\ target' = Corners[scan'] /\ threads' = threads + 1
  /\ wanted' = -1
  /\ UNCHANGED <<moduleVars, moveVars, trajectory, jointVars, pc, rosVars, handover>>

\* "stop" ends the scan with the leg it is at.
ScanStop ==
  /\ Listens /\ IsHead
  /\ scan' = 0
  /\ UNCHANGED <<moduleVars, moveVars, trajectory, target, jointVars, pc, rosVars, threads,
                 handover, wanted>>

----------------------------------------------------------------------------
(* jointTraGeneThread(), under tra_lock_: from the goal the module has last *)
(* given or read.                                                          *)

\* Mutant: the count of the trajectory before goes on.
GenerateCounting ==
  /\ threads > 0
  /\ from' = seen /\ to' = target /\ size' = Rows(seen, target)
  /\ threads' = threads - 1
  /\ UNCHANGED <<moduleVars, stopping, moving, count, target, scan, jointVars, pc, rosVars,
                 handover, wanted>>
Generate ==
  /\ threads > 0
  /\ from' = seen /\ to' = target /\ size' = Rows(seen, target) /\ count' = 0
  /\ threads' = threads - 1
  /\ UNCHANGED <<moduleVars, stopping, moving, target, scan, jointVars, pc, rosVars,
                 handover, wanted>>

----------------------------------------------------------------------------
(* The timer thread: process(). It reads the joint's goal and gives the    *)
(* next one, under tra_lock_.                                              *)

Begin ==
  /\ pc = "idle" /\ enabled
  /\ Overlap \/ (ros # "set" /\ threads = 0)
  /\ pc' = "lock"
  /\ UNCHANGED <<moduleVars, moveVars, trajectory, target, scan, jointVars, rosVars, threads,
                 handover, wanted>>

\* What it gives is the joint's goal if the module still has the joint, and the arm
\* would not be too near to the body.
Give(p) ==
  /\ seen' = p
  /\ held' = (~IsHead /\ p \in Blocked)
  /\ goal' = IF held' \/ ~enabled THEN goal ELSE p

\* stopMoving().
\* Mutant: is_moving_ stays.
StopMovingOn ==
  /\ pc = "lock" /\ stopping
  /\ Give(goal)
  /\ stopping' = FALSE /\ size' = 0 /\ count' = 0 /\ scan' = 0
  /\ known' = TRUE /\ pc' = "idle"
  /\ UNCHANGED <<module, enabled, moving, trajectory, target, rosVars, threads, handover, wanted>>
StopMoving ==
  /\ pc = "lock" /\ stopping
  /\ Give(goal)
  /\ stopping' = FALSE /\ moving' = FALSE /\ size' = 0 /\ count' = 0 /\ scan' = 0
  /\ known' = TRUE /\ pc' = "idle"
  /\ UNCHANGED <<module, enabled, trajectory, target, rosVars, threads, handover, wanted>>

Rest ==
  /\ pc = "lock" /\ ~stopping /\ size = 0
  /\ Give(goal)
  /\ known' = TRUE /\ pc' = "idle"
  /\ UNCHANGED <<module, enabled, moveVars, trajectory, target, scan, rosVars, threads,
                 handover, wanted>>

Play ==
  /\ pc = "lock" /\ ~stopping /\ count < size
  /\ Give(Row(from, to, count))
  /\ moving' = (moving \/ count = 0) /\ count' = count + 1
  /\ known' = TRUE /\ pc' = "idle"
  /\ UNCHANGED <<module, enabled, stopping, size, trajectory, target, scan, rosVars, threads,
                 handover, wanted>>

\* finishMoving(): a scan goes on to its next corner.
Finish ==
  /\ pc = "lock" /\ ~stopping /\ size # 0 /\ count >= size
  /\ Give(goal)
  /\ moving' = FALSE /\ size' = 0 /\ count' = 0
  /\ IF scan = 0 THEN UNCHANGED <<scan, target, threads>>
     ELSE /\ scan' = (scan % Len(Corners)) + 1
          /\ target' = Corners[scan'] /\ threads' = threads + 1
  /\ known' = TRUE /\ pc' = "idle"
  /\ UNCHANGED <<module, enabled, stopping, trajectory, rosVars, handover, wanted>>

Process == Begin \/ StopMoving \/ Rest \/ Play \/ Finish

----------------------------------------------------------------------------
(* The controller takes the joint, and gives it back.                      *)

\* stop(), under tra_lock_: it counts only in motion.
TakeAway ==
  /\ enabled /\ handover = "none"
  /\ Careful /\ ~IsHead => ros = "idle" /\ (size # 0 => moving)
  /\ stopping' = (stopping \/ moving)
  /\ handover' = "wait" /\ wanted' = -1
  /\ UNCHANGED <<moduleVars, moving, size, count, trajectory, target, scan, jointVars, pc,
                 rosVars, threads>>

\* isRunning() is looked at once per control cycle.
SeenAtRest ==
  /\ handover = "wait" /\ ~moving
  /\ handover' = "disable"
  /\ UNCHANGED <<moduleVars, moveVars, trajectory, target, scan, jointVars, pc, rosVars,
                 threads, wanted>>

\* What takes microseconds: process(), a thread's way to its trajectory, a callback
\* that need not wait.
Brief == pc # "idle" \/ threads > 0 \/ ros \in {"set", "join"} \/ (ros = "wait" /\ known)

\* Mutant: the head's trajectory is kept, as direct control keeps its own.
DisableKeeping ==
  /\ handover = "disable"
  /\ Overlap \/ ~Brief
  /\ enabled' = FALSE /\ handover' = "none"
  /\ known' = (~IsHead /\ known)
  /\ IF IsHead THEN moving' = FALSE /\ scan' = 0 ELSE UNCHANGED <<moving, scan>>
  /\ UNCHANGED <<module, stopping, size, count, trajectory, target, jointVars, pc, rosVars,
                 threads, wanted>>
Disable ==
  /\ handover = "disable"
  /\ Overlap \/ ~Brief
  /\ enabled' = FALSE /\ handover' = "none"
  /\ IF IsHead THEN known' = FALSE /\ moving' = FALSE /\ size' = 0 /\ count' = 0 /\ scan' = 0
             ELSE UNCHANGED <<known, moving, size, count, scan>>
  /\ UNCHANGED <<module, stopping, trajectory, target, jointVars, pc, rosVars, threads, wanted>>

Enable ==
  /\ ~enabled
  /\ enabled' = TRUE
  /\ IF IsHead THEN scan' = 0 /\ UNCHANGED known ELSE known' = FALSE /\ UNCHANGED scan
  /\ UNCHANGED <<module, moveVars, trajectory, target, jointVars, pc, rosVars, threads,
                 handover, wanted>>

\* Meanwhile other modules move the joint.
OthersMove ==
  /\ ~enabled
  /\ goal' \in Places
  /\ UNCHANGED <<moduleVars, moveVars, trajectory, target, scan, held, seen, pc, rosVars,
                 threads, handover, wanted>>

----------------------------------------------------------------------------

Next ==
  \/ Message \/ Take \/ GiveUp \/ Spawn \/ Join \/ ScanCommand \/ ScanStop
  \/ Generate \/ Process
  \/ TakeAway \/ SeenAtRest \/ Disable \/ Enable \/ OthersMove

Spec == Init /\ [][Next]_vars

\* The timer runs, the threads end, and the controller looks at isRunning() often
\* enough not to miss for ever the cycle between two legs of a scan: both have the
\* period of a control cycle, and the controller's drifts.
FairSpec ==
  /\ Spec
  /\ WF_vars(Process) /\ WF_vars(Generate)
  /\ WF_vars(Take) /\ WF_vars(Spawn) /\ WF_vars(Join)
  /\ SF_vars(SeenAtRest) /\ SF_vars(Disable)

----------------------------------------------------------------------------
(* Properties.                                                             *)

\* Each variable ranges over the values the code can give it; in particular no
\* target, and so no row, is beyond the joint's limits.
FlagsOK ==
  /\ module \in {"head", "direct"}
  /\ enabled \in BOOLEAN /\ known \in BOOLEAN /\ stopping \in BOOLEAN
  /\ moving \in BOOLEAN /\ held \in BOOLEAN
  /\ pc \in {"idle", "lock"} /\ ros \in {"idle", "wait", "set", "join"}
  /\ handover \in {"none", "wait", "disable"}

PlacesOK ==
  /\ from \in Places /\ to \in Places /\ target \in Places
  /\ seen \in Places /\ goal \in Places
  /\ message \in -1 .. Far + 1 /\ wanted \in -1 .. Far

CountsOK ==
  /\ size \in 0 .. Far + 1 /\ count \in 0 .. size
  /\ scan \in 0 .. Len(Corners)
  /\ threads \in 0 .. MaxThreads + 1

TypeOK == FlagsOK /\ PlacesOK /\ CountsOK

\* Whatever targets, scans and hand-overs fall together, the module's joint never
\* jumps: not to a trajectory of an earlier ownership, and not when a new target
\* comes in mid-motion. Only a joint that was held away from the body may.
NoJump ==
  [][enabled /\ ~held => goal' \in {goal - 1, goal, goal + 1}]_vars

\* A trajectory is not left behind for the module's next time.
NothingKept == ~enabled => size = 0 /\ ~moving /\ ~stopping

\* A hand-over ends, also when stop() falls between two legs of a scan and is ignored.
HandoverEnds == handover = "wait" ~> ~enabled

\* A target that was accepted last is where the joint comes to rest: no scan and no
\* older trajectory takes it away again.
TargetReached ==
  \A p \in Places : IsHead \/ p \notin Blocked => (<>[](wanted = p) => <>[](goal = p))
=============================================================================
