--------------------------- MODULE OnlineWalking ---------------------------
(***************************************************************************)
(* op3_online_walking_module: one motion module with four ways to move the *)
(* legs (a joint pose, a pose of the body, an offset of the body, a plan   *)
(* of foot steps) that share control_type_, is_moving_, mov_time_,         *)
(* mov_step_ and mov_size_. Callbacks write them on the module's executor  *)
(* thread, process() on the timer thread, stop() on the thread of a        *)
(* hand-over; queue_mutex_ covers only a copy of the result, and process() *)
(* and stop() take their steps between each other's. A callback is one     *)
(* step but for the one that asks for a walk.                              *)
(*                                                                         *)
(* A pose is a number: how far the legs are from the standing pose. With   *)
(* the balance on, inverse kinematics turns the pose of body, offset and   *)
(* feet into the legs' every cycle; without it they stay where they are.   *)
(*                                                                         *)
(* No topic tells a client when a motion has ended or a hand-over begun,   *)
(* so what clients do right is assumed, one promise at a time:             *)
(*   rest      goals and "balance_off" only when nothing moves             *)
(*   quiet     nothing while a hand-over is under way                      *)
(*   standing  the balance comes on, after "balance_on", with the legs     *)
(*             where the balance will put them; the body is reset only     *)
(*             with the balance off                                        *)
(*   timed     a motion is given the time its distance takes, and an       *)
(*             offset follows a motion no shorter than its own             *)
(***************************************************************************)
EXTENDS Integers

CONSTANTS
  Far,        \* a pose of the legs or of the body that is asked for is in 0 .. Far
  MaxTime,    \* bound: the longest mov_time, in control cycles
  StepNums,   \* bound: how many steps a command may ask for
  RampTime,   \* the second that a new balance gain or body offset takes, in cycles
  Promises    \* the promises the clients keep

AllPromises == {"rest", "quiet", "standing", "timed"}

ASSUME BoundsAssumption ==
  /\ Far \in Nat \ {0} /\ MaxTime \in Nat /\ RampTime \in Nat
ASSUME StepsAssumption == StepNums # {} /\ StepNums \subseteq Nat
ASSUME PromisesAssumption == Promises \subseteq AllPromises

VARIABLES
  m,        \* the members of the module: see Members
  enabled,  \* enable_
  goal,     \* the legs' goal position in the controller
  handover, \* where the set-module thread is in stop(), "wait" from there to the disabling
  callback, \* whether footStepCommandCallback() is between its two looks at the state
  pc,       \* where the timer thread is in process()
  chosen,   \* the control_type_ it has found
  torn      \* history: since the last stop() began, a cycle that had found its kind before
            \* has begun a motion

cycleVars == <<pc, chosen, torn>>
vars == <<m, enabled, goal, handover, callback, cycleVars>>

Timed == {"joint", "wholebody", "offset"}    \* the motions along one trajectory
Goals == 0 .. Far + 2
Sizes == {0} \cup {n + 3 : n \in StepNums}

Members == [
  type : Timed \cup {"none", "walking"},     \* control_type_
  balance : BOOLEAN,                         \* balance_type_ = ON
  moving : BOOLEAN,                          \* is_moving_
  begun : BOOLEAN,                           \* joint_control_initialize_, wholebody_initialize_ or
                                             \* body_offset_initialize_: only that of the motion asked
                                             \* for is read, and FALSE stands for all between motions
  known : BOOLEAN,                           \* goal_initialize_
  des : Goals,                               \* des_joint_pos_
  body : 0 .. Far,                           \* des_body_pos_
  offset : 0 .. 1,                           \* des_body_offset_
  apart : BOOLEAN,                           \* des_l_leg_pos_, des_r_leg_pos_: feet not side by side
  wanted : 0 .. Far,                         \* goal_joint_pos_, wholebody_goal_msg_, goal_body_offset_
  time : 0 .. MaxTime,                       \* mov_time_
  row : 0 .. MaxTime,                        \* mov_step_
  rows : 0 .. MaxTime + 1,                   \* mov_size_
  offsetRow : 0 .. MaxTime + RampTime + 1,   \* body_offset_step_
  path : [of : Timed \cup {"none"}, from : Goals, to : Goals, time : 0 .. MaxTime + RampTime],
                                             \* joint_tra_, wholebody_control_, body_offset_tra_
  steps : Sizes,                             \* walking_size_
  plan : Sizes,                              \* foot_step_size_ of walking_control_
  step : Nat,                                \* walking_step_
  walked : BOOLEAN,                          \* walking_initialize_
  gain : 0 .. 1,                             \* goal_balance_gain_ratio_, which balance_tra_ ends at
  ramped : BOOLEAN,                          \* balance_control_initialize_
  ramp : 0 .. RampTime + 1 ]                 \* the rows of balance_tra_ to go, 0 when not is_balancing_

NoPath == [of |-> "none", from |-> 0, to |-> 0, time |-> 0]

Kept(p) == p \in Promises

\* setBalanceControl(): where the inverse kinematics puts the legs.
Ik(s) == s.body + s.offset + (IF s.apart THEN 1 ELSE 0)

\* MinimumJerk::getPosition(): towards the end of the path, one place per cycle, and at
\* the end when its time is over.
At(p, row) ==
  IF row >= p.time THEN p.to
  ELSE IF p.to >= p.from THEN IF p.from + row < p.to THEN p.from + row ELSE p.to
  ELSE IF p.from - row > p.to THEN p.from - row ELSE p.to

Distance(a, b) == IF a < b THEN b - a ELSE a - b

\* The body stands up again and the feet side by side; whatever moves is not asked.
ResetBodyPose(s) == [s EXCEPT !.body = 0, !.apart = FALSE]

-----------------------------------------------------------------------------
(* The module is made; mov_size_ has no initial value. *)
Init ==
  /\ m \in [type : {"none"}, balance : {FALSE}, moving : {FALSE},
            begun : {FALSE}, known : {FALSE},
            des : {0}, body : {0}, offset : {0}, apart : {FALSE}, wanted : {0}, time : {0},
            row : {0}, rows : 0 .. MaxTime + 1, offsetRow : {0},
            path : {NoPath},
            steps : {0}, plan : {0}, step : {0}, walked : {FALSE},
            gain : {0}, ramped : {FALSE}, ramp : {0}]
  /\ enabled = FALSE
  /\ goal \in 0 .. Far
  /\ handover = "no"
  /\ callback = FALSE
  /\ pc = "idle" /\ chosen = "none" /\ torn = FALSE

-----------------------------------------------------------------------------
(* Callbacks. A goal in motion is taken if its kind is the one in motion. *)

AtRest == m.type = "none" /\ ~m.moving

Heard == ~callback /\ (Kept("quiet") => handover = "no")

\* What the goal callbacks have in common: the goal, its time, and to begin with it anew.
Asked(kind, place, time) ==
  [m EXCEPT !.wanted = place, !.time = time, !.begun = FALSE, !.type = kind]

Takes(kind) ==
  /\ Heard
  /\ enabled
  /\ m.type \in {"none", kind}
  /\ Kept("rest") => AtRest

GoalJointPose ==
  /\ Takes("joint")
  /\ \E place \in 0 .. Far, time \in 0 .. MaxTime :
       /\ Kept("timed") => time >= Distance(place, IF m.known THEN m.des ELSE goal)
       /\ m' = [Asked("joint", place, time) EXCEPT !.balance = FALSE]
  /\ UNCHANGED <<enabled, goal, handover, callback, cycleVars>>

\* In motion only a goal for the group of joints in motion is taken: any goal may be one.
GoalKinematicsPose ==
  /\ Takes("wholebody")
  /\ m.balance
  /\ \E place \in 0 .. Far, time \in 0 .. MaxTime :
       /\ Kept("timed") => time >= Distance(place, m.body)
       /\ m' = Asked("wholebody", place, time)
  /\ UNCHANGED <<enabled, goal, handover, callback, cycleVars>>

SetBodyOffset ==
  /\ Takes("offset")
  /\ m.balance
  /\ Kept("timed") => m.rows > RampTime /\ RampTime > 0
  /\ \E place \in 0 .. 1 : m' = Asked("offset", place, m.time)
  /\ UNCHANGED <<enabled, goal, handover, callback, cycleVars>>

\* Until the callback looks whether anything moves: three steps are added, in which the
\* feet stay in place.
FootStepCommand ==
  /\ Takes("walking")
  /\ m.balance
  /\ \E n \in StepNums, time \in 0 .. MaxTime :
       m' = [m EXCEPT !.steps = n + 3, !.time = time, !.type = "walking"]
  /\ callback' = TRUE
  /\ UNCHANGED <<enabled, goal, handover, cycleVars>>

\* initWalkingControl(). The feed-forward trajectory it leaves for the end is the last
\* walk's until then; walking_initialize_ keeps the first walk from playing without one.
InitWalking(s) ==
  [s EXCEPT !.row = 0, !.rows = s.time + 1, !.step = 0, !.plan = s.steps,
            !.moving = TRUE, !.walked = TRUE]

\* The rest of the callback.
FootStepStart ==
  /\ callback
  /\ callback' = FALSE
  /\ m' = IF m.moving THEN m ELSE InitWalking(m)
  /\ UNCHANGED <<enabled, goal, handover, cycleVars>>

\* "balance_on", "balance_off" and any other word, which alone switches the balance on.
BalanceMessage ==
  /\ Heard
  /\ enabled
  /\ \E word \in {"balance_on", "balance_off", "other"} :
       /\ Kept("rest") /\ word = "balance_off" => AtRest
       /\ Kept("standing") /\ word = "other" => m.gain = 1 /\ AtRest /\ goal = Ik(m)
       /\ m' = [m EXCEPT
            !.gain = CASE word = "balance_on" -> 1 [] word = "balance_off" -> 0 [] OTHER -> @,
            !.balance = CASE word = "balance_off" -> FALSE [] word = "other" -> TRUE [] OTHER -> @,
            !.ramped = FALSE]
  /\ UNCHANGED <<enabled, goal, handover, callback, cycleVars>>

\* setResetBodyCallback() asks neither for enabling nor for what moves.
ResetBody ==
  /\ Heard
  /\ Kept("standing") => ~m.balance
  /\ m' = [ResetBodyPose(m) EXCEPT !.offset = 0]
  /\ UNCHANGED <<enabled, goal, handover, callback, cycleVars>>

\* setFootDistanceCallback() leaves the offset.
SetFootDistance ==
  /\ Heard
  /\ enabled
  /\ Kept("standing") => ~m.balance
  /\ m' = ResetBodyPose(m)
  /\ UNCHANGED <<enabled, goal, handover, callback, cycleVars>>

-----------------------------------------------------------------------------
(* process() *)

\* What the first cycle of a motion does, initJointControl() and its like; a motion that
\* was begun goes on.
Begin(s, begin) == IF s.begun THEN s ELSE [begin EXCEPT !.begun = TRUE, !.moving = TRUE]

\* Mutant: one row too few.
InitJointShort(s) == Begin(s,
  [s EXCEPT !.row = 0, !.rows = s.time,
            !.path = [of |-> "joint", from |-> s.des, to |-> s.wanted, time |-> s.time]])

InitJoint(s) == Begin(s,
  [s EXCEPT !.row = 0, !.rows = s.time + 1,
            !.path = [of |-> "joint", from |-> s.des, to |-> s.wanted, time |-> s.time]])

\* Mutant: the new WholebodyControl is never initialised.
InitWholebodyRaw(s) == Begin(s, [s EXCEPT !.row = 0, !.rows = s.time + 1, !.path = NoPath])

\* A WholebodyControl that replaces one in motion is not initialised: it has no path.
InitWholebody(s) == Begin(s,
  [s EXCEPT !.row = 0, !.rows = s.time + 1,
            !.path = IF s.moving THEN NoPath
                     ELSE [of |-> "wholebody", from |-> s.body, to |-> s.wanted, time |-> s.time]])

InitOffset(s) == Begin(s,
  [s EXCEPT !.offsetRow = 0,
            !.path = [of |-> "offset", from |-> s.offset, to |-> s.wanted, time |-> RampTime]])

\* is_moving_ = false. The row, the step and the path of a motion that is over are not read
\* before they are written again: here they are cleared with it.
Still(s) ==
  [s EXCEPT !.moving = FALSE, !.row = 0, !.offsetRow = 0, !.path = NoPath, !.step = 0]

\* Mutant: the kind of control is not given back.
EndedKeeping(s) == [Still(s) EXCEPT !.begun = FALSE, !.wanted = 0]

\* The last row: nothing moves and the path is deleted; its goal is not read again.
Ended(s) == [Still(s) EXCEPT !.type = "none", !.begun = FALSE, !.wanted = 0]

CalcJoint(s) ==
  IF ~s.moving THEN s
  ELSE LET at == [s EXCEPT !.des = At(s.path, s.row)]
       IN IF s.row = s.rows - 1 THEN Ended(at)
          ELSE [at EXCEPT !.row = @ + 1]

\* Without a path the program is lost; here the body stays.
CalcWholebody(s) ==
  IF ~s.moving \/ s.path.of = "none" THEN s
  ELSE LET at == [s EXCEPT !.body = At(s.path, s.row)]
       IN IF s.row = s.rows - 1 THEN Ended(at)
          ELSE [at EXCEPT !.row = @ + 1]

\* calcOffsetControl() compares its own row with the size of the motion before it. Past
\* every size the row need not be told apart.
CalcOffset(s) ==
  IF ~s.moving THEN s
  ELSE LET at == [s EXCEPT !.offset = At(s.path, s.offsetRow)]
       IN IF s.offsetRow = s.rows - 1 THEN Ended(at)
          ELSE [at EXCEPT !.offsetRow = IF @ > MaxTime + RampTime THEN @ ELSE @ + 1]

\* Mutant: the last two steps are steps like the others.
ApartToTheEnd(step, plan) == step \in 2 .. plan - 1

\* calcFootStepParam(): in the first two steps and the last two the feet come to stand
\* side by side. Foot steps a client lays out itself (footsteps_2d) are taken to do the same.
Apart(step, plan) == step \in 2 .. plan - 3

\* Mutant: the walk ends one step late.
CalcWalkingLong(s) ==
  IF ~s.moving \/ ~s.walked THEN s
  ELSE IF s.row # s.rows - 1 THEN [s EXCEPT !.row = @ + 1]
  ELSE LET at == [s EXCEPT !.row = 0, !.apart = Apart(s.step, s.plan)]
       IN IF s.step = s.steps THEN [Still(at) EXCEPT !.type = "none"]
          ELSE [at EXCEPT !.step = @ + 1]

CalcWalking(s) ==
  IF ~s.moving \/ ~s.walked THEN s
  ELSE IF s.row # s.rows - 1 THEN [s EXCEPT !.row = @ + 1]
  ELSE LET at == [s EXCEPT !.row = 0, !.apart = Apart(s.step, s.plan)]
       IN IF s.step = s.steps - 1 THEN [Still(at) EXCEPT !.type = "none"]
          ELSE [at EXCEPT !.step = @ + 1]

BeginKind(s) ==
  CASE chosen = "joint"     -> InitJoint(s)
    [] chosen = "wholebody" -> InitWholebody(s)
    [] chosen = "offset"    -> InitOffset(s)
    [] OTHER                -> s

PlayKind(s) ==
  CASE chosen = "joint"     -> CalcJoint(s)
    [] chosen = "wholebody" -> CalcWholebody(s)
    [] chosen = "offset"    -> CalcOffset(s)
    [] chosen = "walking"   -> CalcWalking(s)
    [] OTHER                -> s

InitBalance(s) == IF s.ramped THEN s ELSE [s EXCEPT !.ramped = TRUE, !.ramp = RampTime + 1]

\* Mutant: a ramp that has ended counts on.
CalcBalanceOn(s) ==
  IF s.ramp # 1 \/ s.gain = 1 THEN [s EXCEPT !.ramp = @ - 1]
  ELSE [s EXCEPT !.ramp = 0, !.type = "none", !.balance = FALSE]

\* A ramp that ends at no balance switches it off, and drops the motion under way.
CalcBalance(s) ==
  IF s.ramp # 1 \/ s.gain = 1 THEN [s EXCEPT !.ramp = IF @ = 0 THEN 0 ELSE @ - 1]
  ELSE [s EXCEPT !.ramp = 0, !.type = "none", !.balance = FALSE]

\* No pose of the legs for this pose of the body.
NoSolution(s) ==
  ResetBodyPose([Still(s) EXCEPT !.ramp = 0, !.balance = FALSE, !.type = "none"])

Balanced(s, solved) ==
  IF ~s.balance THEN s
  ELSE LET b == CalcBalance(InitBalance(s))
       IN IF solved THEN [b EXCEPT !.des = Ik(b)] ELSE NoSolution(b)

\* One part of process() after another.
CycleStep(at, next, members) ==
  /\ pc = at /\ pc' = next
  /\ m' = members
  /\ UNCHANGED <<enabled, handover, callback>>

\* The first cycle since stop() starts from where the legs were sent.
ReadGoals ==
  /\ enabled
  /\ CycleStep("idle", "known", IF m.known THEN m ELSE [m EXCEPT !.des = goal])
  /\ UNCHANGED <<goal, chosen, torn>>

GoalsKnown ==
  /\ CycleStep("known", "choose", [m EXCEPT !.known = TRUE])
  /\ UNCHANGED <<goal, chosen, torn>>

Choose ==
  /\ CycleStep("choose", "begin", m)
  /\ chosen' = m.type
  /\ UNCHANGED <<goal, torn>>

BeginMotion ==
  /\ CycleStep("begin", "play", BeginKind(m))
  /\ torn' = (torn \/ (m'.moving /\ ~m.moving /\ (handover # "no" \/ ~enabled)))
  /\ UNCHANGED <<goal, chosen>>

PlayRow ==
  /\ CycleStep("play", "balance", PlayKind(m))
  /\ chosen' = "none"
  /\ UNCHANGED <<goal, torn>>

Balance ==
  /\ \E solved \in BOOLEAN : CycleStep("balance", "send", Balanced(m, solved))
  /\ UNCHANGED <<goal, chosen, torn>>

\* The controller takes what the module has left in des_joint_pos_.
Send ==
  /\ CycleStep("send", "idle", m)
  /\ goal' = m.des
  /\ UNCHANGED <<chosen, torn>>

Process ==
  \/ ReadGoals \/ GoalsKnown \/ Choose \/ BeginMotion \/ PlayRow \/ Balance \/ Send

-----------------------------------------------------------------------------
(* The controller's side, on the thread of a hand-over. Joints change hands under the
   controller's queue_mutex_, between two cycles; stop() and the disabling do not. *)

Enable ==
  /\ ~enabled /\ pc = "idle"
  /\ enabled' = TRUE
  /\ UNCHANGED <<m, goal, handover, callback, cycleVars>>

\* One part of stop() after another.
StopStep(at, next, members) ==
  /\ handover = at /\ handover' = next
  /\ m' = members
  /\ UNCHANGED <<enabled, goal, callback, pc, chosen>>

StopGoals ==
  /\ enabled
  /\ Kept("quiet") => ~callback
  /\ StopStep("no", "known", [m EXCEPT !.des = 0])
  /\ torn' = FALSE

StopKnown ==
  /\ StopStep("known", "moving", [m EXCEPT !.known = FALSE])
  /\ UNCHANGED torn

StopMoving ==
  /\ StopStep("moving", "flags", [Still(m) EXCEPT !.ramp = 0])
  /\ UNCHANGED torn

\* body_offset_initialize_ is left as it is, like the balance.
StopFlags ==
  /\ StopStep("flags", "type",
       [m EXCEPT !.begun = (@ /\ m.type = "offset"), !.walked = FALSE, !.ramped = FALSE])
  /\ UNCHANGED torn

StopType ==
  /\ StopStep("type", "wait", [m EXCEPT !.type = "none"])
  /\ UNCHANGED torn

Stop == StopGoals \/ StopKnown \/ StopMoving \/ StopFlags \/ StopType

\* The wait for isRunning() to be false is over.
Disable ==
  /\ handover = "wait"
  /\ ~m.moving
  /\ enabled' = FALSE
  /\ handover' = "no"
  /\ UNCHANGED <<m, goal, callback, cycleVars>>

\* Another module has the legs.
OthersMove ==
  /\ ~enabled /\ pc = "idle"
  /\ goal' \in 0 .. Far
  /\ UNCHANGED <<m, enabled, handover, callback, cycleVars>>

Callback ==
  \/ GoalJointPose \/ GoalKinematicsPose \/ SetBodyOffset
  \/ FootStepCommand \/ FootStepStart \/ BalanceMessage \/ ResetBody \/ SetFootDistance

Next == Callback \/ Process \/ Enable \/ Stop \/ Disable \/ OthersMove

Spec == Init /\ [][Next]_vars

\* The timer goes on with process(), a callback that was entered returns, and so does
\* stop(); the controller's wait ends once it finds nothing moving.
FairSpec ==
  /\ Spec
  /\ WF_vars(Process) /\ WF_vars(FootStepStart)
  /\ WF_vars(handover # "no" /\ Stop) /\ WF_vars(Disable)

-----------------------------------------------------------------------------
(* Properties *)

TypeOK ==
  /\ m \in Members
  /\ {enabled, callback, torn} \subseteq BOOLEAN
  /\ handover \in {"no", "known", "moving", "flags", "type", "wait"}
  /\ goal \in Goals
  /\ pc \in {"idle", "known", "choose", "begin", "play", "balance", "send"}
  /\ chosen \in Timed \cup {"none", "walking"}

\* A motion plays only a path that was computed for it: not the one of an uninitialised
\* WholebodyControl, nor one already deleted (calcJointControl(), calcWholebodyControl(),
\* calcOffsetControl()). After a stop that fell into a beginning motion (torn) the code
\* does not keep it.
PathReady ==
  pc = "play" /\ chosen \in Timed /\ m.moving => m.path.of = chosen \/ torn

\* The walk in progress never counts on past the steps it has planned, and has one more
\* to make: walking_size_ is the size of the plan of the WalkingControl that plays.
StepInPlan ==
  m.moving /\ m.type = "walking" => m.steps = m.plan /\ m.step < m.plan

\* Every motion has its own path and every walk the steps it has planned, however motions,
\* walks and hand-overs follow each other.
PlansKept == TypeOK /\ PathReady /\ StepInPlan

\* A walk that is not stopped ends with the feet side by side, be it at its end or where
\* the legs find no pose.
FeetTogether ==
  [][m.type = "walking" /\ m'.type = "none" /\ handover = "no" => ~m'.apart]_vars

\* A motion that ends by itself has reached what was asked of it.
Place(s, k) ==
  CASE k = "joint" -> s.des [] k = "wholebody" -> s.body [] k = "offset" -> s.offset
EndsAtGoal ==
  [][\A k \in Timed :
       m.type = k /\ m'.type = "none" /\ handover = "no" /\ (m'.balance \/ k = "joint")
         => Place(m', k) = m.wanted]_vars

\* Every command comes to an end, so that one of another kind is taken again, and so does a
\* hand-over, which waits for isRunning() to be false: unless the stop fell into the cycle
\* that was about to begin the motion, which nothing ends then (torn). is_moving_ may stay
\* set without a hand-over: a loss of balance between the two looks of a foot step callback,
\* or a ramp that ends at no balance, takes the kind from a motion that moves.
Busy == m.type # "none" \/ handover # "no"
ControlReturns == Busy ~> ~Busy \/ torn

=============================================================================
