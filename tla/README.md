# ROBOTIS-OP3: a TLA+ model of its motion stack

The repository holds the software of a small humanoid robot: the ROBOTIS
framework that owns the servo bus, the OP3 motion modules that compute joint
goals, the programs that tell them what to do, and a football stack on top.
What makes it hard is not any one computation but that a body with twenty
joints is *handed over*, while it moves, between programs that run in threads of
their own and share their state without locks.

This directory models that: who owns the joints, who is allowed to move, and
what happens when commands, stops, hand-overs, emergency stops and control
cycles meet in an order nobody tried. TLC checks the models on small instances,
TLAPS proves the central properties for every value of the constants.

    tlc -workers 2 -config MCRobotisController.cfg MCRobotisController.tla
    tlapm RobotisControllerProofs.tla

`PROJECT.json` lists components, runs, mutants, hazards and theorems,
and maps each definition to the lines it models.

## 1. Inventory

Paths are under `src/src/`. *Threads* are the actors that matter.

| Component | State | Operations | Talks to |
|---|---|---|---|
| `robotis_controller` (`ROBOTIS-Framework/robotis_controller`) | owner and goals of each joint, sync-write lists, controller mode, module list, `queue_mutex_` | `process()` on the timer thread; mode, joint and set-module callbacks on the queue thread; `setCtrlModuleThread`, `setJointCtrlModuleThread` on a thread of their own; `startTimer`, `stopTimer` | the modules (virtual calls), the bus, ROS topics and services |
| motion modules' contract (`robotis_framework_common/motion_module.h`) | `enable_`, `result_`, control mode | `process`, `stop`, `isRunning`, `setModuleEnable` | the controller |
| `op3_action_module` | page, step and section that are played; start and stop flags; an open action file | `start`, `stop`, `brake`, `process`; enable/disable | controller; `page_num`, `start_action` |
| `op3_walking_module` (and its fork `op3_football_walking`) | clock and phase of the gait, parameters and amplitudes, `ctrl_running_`, `real_running_`, initial pose | `start`, `stop`, parameters, `process`; enable/disable | controller; `walking/command` |
| `op3_base_module` | `has_goal_joints_`, `is_moving_`, `cnt_`, trajectory | `ini_pose` (waits for the controller), trajectory thread, `process` | controller (as a client of its service) |
| `op3_head_control_module`, `op3_direct_control_module` | target, trajectory and its row count, scan, `is_moving_`, `has_goal_position_` / `is_updated_` | joint targets and offsets, scans, a trajectory thread (detached in one, joined in the other), `process`, `stop` | controller; `joint_control/set_joint_states` |
| `op3_online_walking_module` | `control_type_`, `balance_type_`, one set of `mov_*` counters for four kinds of motion, body pose and offset, a plan of steps | joint, body, offset and foot-step goals, balance on and off, reset of the body, `process`, `stop` | controller |
| `op3_manager` | initialisation state, button state | start-up; buttons and torque checks that stop and start the timer | controller |
| `op3_football` L1 bridge (C++) | `estop_active_`, `walking_active_`, `getup_in_progress_` | walking commands and parameters, module requests, emergency stop, torque, button, IMU, get-up thread | topics to controller and modules; services to L2-L4 |
| `op3_football` L2-L4 (Python) | what the player is doing | `go`, `stop`, `stand`, recovery from falls, follow ball | bridge services |
| `op3_demo` soccer | the demo asked for, following, tracking, stand state, restart and start/stop flags | one loop: apply the demo asked for, process, spin; recovery from falls, kicks | topics and services |
| `op3_demo` action and vision | state of the demo | scripts of pages, face following | topics and services |
| `op3_action_editor` | the page and its number, `edited_`, STP7, the action file | commands on steps and pages, torque on and off, play, go | the controller and two modules, in its own process |
| `GroupSyncWrite` (DynamixelSDK) | the entries of a list | `addParam`, `changeParam`, `removeParam`, transmit | the bus |
| devices, kinematics, balance, localisation, OpenCR, cameras, detectors, GUI tools | numeric, input or display state | | |

**How they interact.** A client publishes the name of a module. The queue thread
joins the previous set-module thread and starts the next, which tells the losing
modules to stop, waits until each says `isRunning() = false`, disables them,
and under `queue_mutex_` gives the joints to the new owner and enables it.
Meanwhile the timer thread runs each enabled module every 8 ms, under the same
mutex, and copies its results into the goals and sync-write lists; each module
takes commands on an executor thread of its own, with no lock at all. Football
clients never talk to modules: they call the bridge, which forwards commands,
remembers whether it believes the robot walks, and gets a fallen robot up from a
detached thread. Requests go out both as a message and as a service call.

**What is hard, and what makes each part correct.**

- *robotis_controller*: flags read before the mutex is taken, a wait for a
  condition that only another thread can bring about, five places that edit the
  sync-write lists. Correct if no joint is taken from a running module, every
  owner runs, every joint is in exactly one list with its own goal, a service
  answers for its own request, and the queue thread does not wait for ever.
- *action module*: a cursor shared through one `FILE*`, counters that change at
  different moments when a page is turned. Correct if the pages that are played
  are those their headers name, as often as they say, and a stop ends the play.
- *walking module*: a stop takes three phases of the gait, and commands, parameters
  and hand-overs fall between them. Correct if it rests only on both feet, its legs
  never jump, and a stop is obeyed.
- *base module*: three threads and four flags. Correct if the joint starts
  from where it is and never jumps.
- *bus side of the controller*: lists that are sent once and cleared whatever became of the
  packet, a port that refuses a write while an answer is outstanding, gains remembered on
  one side and held by servos on the other. Correct if nothing accepted is lost.
- *head and direct control*: a thread computes from flags and goals that the cycle and a
  hand-over change meanwhile. Correct if the joint never jumps, and hand-overs end.
- *online walking*: four kinds of motion count with the same members. Correct if none plays
  another's path, walks end with the feet side by side, and control is given back.
- *manager*: the only thread that can stop the timer is one of two that wait for a thread
  that waits for the timer. Correct if nobody waits for ever and the timer comes back.
- *soccer demo*: one thread, so all it hears is old. Correct if page and gait are
  never mixed, a robot that stands is not thrown down, and the game goes on.
- *action editor*: work is shown in one place, kept in a second and saved in a third. Correct
  if none is lost silently and what is taught was held.
- *bridge*: queues that forget, an emergency stop that guards some commands and
  not others, a belief about a robot one only hears of. Correct if an emergency
  stop really ends walking, the belief is right, and pages are not played in stride.

`PROJECT.json` lists the hazards line by line, each with the properties that
catch it or the reason none does yet.

## 2. Modules

| Module | Models | Run | Proved in |
|---|---|---|---|
| `RobotisController` | hand-overs, contract of the modules, goal lists | `handover`, `queue_returns` | `RobotisControllerProofs` |
| `MotionModule` | what the controller relies on in a motion module (abstract) | used by `RobotisController`, refined by `WalkingModule` | `RobotisControllerProofs`, `WalkingModuleProofs` |
| `ServoWrites` | the controller's bus side: values written once, gains, restart | `servo_writes` | `ServoWritesProofs` |
| `Manager` | button and torque check against timer and hand-over threads | `manager` | `ManagerProofs` |
| `ActionModule` | action module | `action_pages` | `ActionModuleProofs` |
| `PagePlayer` | what the action module promises (abstract) | refined by `ActionModule` | |
| `WalkingModule` | walking module | `walking_gait` | `WalkingModuleProofs` |
| `BaseModule` | base module | `base_pose` | `ManagerProofs` (instance `Base`) |
| `JointTargets` | head control and direct control | `targets` | `ManagerProofs` (instance `Motion`; types and what a hand-over leaves) |
| `OnlineWalking` | online walking module | `online_walking` | |
| `SoccerDemo` | demo node, soccer demo, ball follower and tracker | `soccer` | `SoccerDemoProofs` |
| `FootballBridge` | bridge, L3 clients; controller and modules as it meets them | `bridge` | `FootballBridgeProofs` |
| `ActionEditor` | action editor | `action_editor` | `ActionEditorProofs` |

Each has its `MC` module with a `.cfg` of the same name (`MCQueueReturns.cfg` is a second one of
`MCRobotisController`).

`RobotisController` takes a motion module as *anything* that keeps the contract, which is
`MotionModule`: it moves after a command, whose callback finds it enabled (`Hear`) and sets it in
motion a step later (`Command`), so that a disabling may come between, or, once, by itself when it has
been enabled (`Settling`);
after a stop every process() call brings it nearer to rest; it may or may not brake when disabled, but
gives up a motion of its own. The two sides are joined at this specification. The module sets the
sets of outcomes (`AfterProcess`, `AfterStop`, `AfterDisable`) from which the controller's steps choose, and
`ModulesKeepContract` shows that the controller calls each module only as it allows: `Enable` never
comes within process(), nor twice. `WalkingModule` implements it (`KeepsContract`), where how far from
rest the gait is (`MotionLeft`) has to be said in ticks of its clock; the controller takes a
process() as one step, the contract and the gait take it as several.

The other modules do not implement it. The action module's pages can chain to an exit for as long as the
file says, so no number bounds the calls after a stop; `stop()` of the base module is empty; of head and
direct control a command begins to move the joint in a later process() only, and between two legs of a
scan a stop is ignored. `StopEnds` and `HandoverEnds` say for two of these what a hand-over needs of
them. `RestsOnBothFeet` adds that `isRunning() = false` of the walking module means a safe stance.

`FootballBridge` stands above: it composes the bridge and its clients with a hand-over reduced to its four
phases, a gait that is `rest`/`walk`/`halt`, and a player that plays or does not.

Definitions named as mutants stand beside the definition they replace and say
so in a comment; no specification uses them.

### RobotisController

*Timer thread*: `timer` goes sync -> gate -> locking -> modules; `ReadMode` reads
`controller_mode_` before the mutex, `RunModule` is one module's turn in the
pass (process(), copy of the results of the joints it owns, `changeParam`).
*Queue thread*: `callback` is ready, in the `join()` of the old set-module
thread, or awaiting the new one (services). *Set-module thread*: `phase` goes
collect -> stop -> wait -> disable -> assign, one module per step; `Losers` are
stop_modules, `Moved` and `NewOwner` what the request gives to whom, `Enlist`
the addParam/removeParam of one joint. Only the timer's pass holds `queue_mutex_`
over several steps, so it is the guard `MutexFree` of the other critical sections.
`motion[m]` counts the process() calls before isRunning() becomes false, `settling[m]` is a
motion of the module's own. *Modules' executors*: `HearCommand` is the check of `enable_`, `Command`
what follows; `heard` are the modules in between, which nothing keeps from being disabled there.
`resumed` is a history: the modules a command has set in motion after the wait saw them at rest, or
after they were disabled.
`Commanded` are the modules that are sent commands at all: in `handover` the one that brakes. What a module may leave of them is read from `Contract(m)`, its `MotionModule`.
Unknown module names, joints a module cannot drive, malformed messages and the
empty name follow their branches in the code.

Not in it: start and stop of the timer (`Manager`), gain lists and `direct_sync_write_`
(`ServoWrites`), offset ramp, Gazebo.

### ServoWrites

`timer` is where `process()` is between the two halves of a bulk read; `seen` the mode it found,
which it looks at twice; `using` the port's `is_using_`. `direct` is `direct_sync_write_`,
`gainList` the gain lists (three in the code, filled and sent alike), `asked`, `gain` and
`servoGain` the gain a module wants, the one the controller remembers, and the servo's.
A message that opens a new group, or adds to one, is `EnterItem`; where the address of the first
item in the group decides where all the others land, the model lets them land there (`Landed`).
`JoinTimer`, `InitializeDevice` and `StartTimer` are the restart on the main thread.

### Manager

`main` is the place in `buttonHandlerCallback()` or `dxlTorqueCheckCallback()`; `queue` a
set-module callback; `setter` the one `set_module_thread_`. Joining it and assigning it are two
steps of either thread: who joins a thread that is joined or being joined, or assigns over one that is
not joined (`Joining`), ends the process, and a press may come at any point of a callback. A read while the timer owns the port
leaves its result 0, so `Check` finds the torque off whenever the timer runs: every check
restarts the controller, as in the code.

### ActionModule and PagePlayer

`pc` is where the timer thread is inside `actionPlayProcess()`, `ros` where the
ROS thread is inside `queueThread()`'s callback and `start()`: the check of `enable_` (`RosCheck`), the
loading (`RosLoad`) and `playing_ = true` (`RosBegin`) are steps between which the module can be
disabled and braked. Both threads move `cursor`, the position of the one `FILE*`. `NextStep` is the step and page arithmetic (`page_step_count_`, the byte
`play_repeat_count` that is decremented before it is compared), `Prepare` the
section lengths, which are unsigned in the code. The page data is a small file
of pages with their header and the times of their steps; joint positions and
their interpolation are left out. `PagePlayer` says: a page begins from nothing,
is followed by what its header names, and *number* and *content* change together.

### WalkingModule

The phases lie at the quarters of whatever the period is, so `time` counts in
ticks of a quarter. Of an amplitude only zero or not matters to start and stop.
`Halt` is separate from `ProcessPhase` because `ctrl_running_` is read before
`real_running_` is written. `Written` is the loop that copies a row of the
initial-pose trajectory.

### BaseModule

Every assignment two threads could interleave on is a step. One joint stands
for all of them, which the code treats alike: its pose is a distance of at most
`Far`, the trajectory moves it by one per cycle. `Message` asks for the module or finds the service
not there: the callback goes on to its wait in either case. `Overlap` decides
whether threads may meet inside windows of microseconds.

### JointTargets

`module` says which of the two it is, since they are one machine with four differences (see the
module's head). `threads` counts the threads under way to `jointTraGeneThread()`,
`from`, `to`, `size` and `count` are the trajectory, one place per cycle; `target` and the
flags are shared with the callbacks, as in the code without a lock. `held` is a
collision that holds a direct-control joint; which places collide (`Blocked`) is a
constant in place of the kinematics.

### OnlineWalking

The module's members are one record `m`, since `process()` hands them from one calculation to the
next in a cycle. `pc` is where the timer thread is in `process()` (`ReadGoals`, `GoalsKnown`, `Choose`,
`BeginMotion`, `PlayRow`, `Balance`, `Send`), `handover` where the set-module thread is in `stop()`
(`StopGoals` to `StopType`); no lock keeps the two apart, so they interleave. `BeginKind` and `PlayKind`
are the branches of `process()` for the kind of control it has `chosen`; `torn` is a history, of a motion
that begins although a stop has fallen into its first cycle. The legs are a distance from the standing pose; inverse kinematics adds body, offset and
a stride (`Ik`). `FootStepCommand` and `FootStepStart` are the two halves of a callback
between which the cycle runs. A walk's plan is a number of steps and the ones the code adds.

### SoccerDemo

`pc` is the place in the loop of `demo_node.cpp`, `back` where the wait of `startSoccerMode()` returns
to. Callbacks happen in the `spin` step only; waits for a page or the gait are places of their own,
in which the robot may fall and messages do not arrive. `body`, `gait`, `page` and `posture` are the
robot outside; a page or gait command is lost or not. Where the ball is in the picture, and
how far a step goes, is left to chance.

### ActionEditor

One command is one action, the playing of a page included, since the editor's loop waits for it.
`Played(page)` are the steps a page plays among its slots. A position is a number, an invalid mark, a
torque-off mark, or a number that is neither (`Wild`), which interpolating between marks makes. Reading a
servo fails, and writing is refused, while the timer runs, which `Go` over an invalid joint leaves
running. Times, gains and names of a page are not in it.

### FootballBridge

The bridge's node has a single-threaded executor: each callback is one action. The
get-up thread is detached: each of its calls is one. A client's `Programs`
are the calls `go()`, `stop()`, `_recover_if_fallen()` and `stand()` make, in
order; a call refused under emergency stop raises, which ends the program. Queues
are keep-last and forget their oldest message. A module request crosses its own
copy, since topic and service are two channels.

## 3. Runs

| Run | Question | Properties |
|---|---|---|
| `handover` | Does every joint have one owner that runs, and one place in the goal lists, whatever hand-overs, commands and mode switches cross? | `ListsInStep`, `ModulesMatchOwners`, `ServiceDelivers`, `JointsTakenSafely` |
| `queue_returns` | Do the callbacks that wait for a hand-over return, and is nobody cut off mid-motion, if clients leave a retiring module alone? | `QuietHandover`, `QueueReturns` |
| `action_pages` | Does the player play the pages and repetitions the file names, and end when stopped? | `InBounds`, `RepeatHonoured`, `StopEnds`, `PlaysPages` |
| `walking_gait` | Does the gait end on both feet, does it end when stopped, do the legs never jump? | `StandsOnBothFeet`, `GaitContinuous`, `KeepsContract`, `StopObeyed` |
| `base_pose` | Does the way to the initial pose begin where the joints are, and go on without a jump? | `NoJump` |
| `bridge` | Does an emergency stop stop the robot, for good? Does the bridge know what the robot does? | `EstopStopsWalking`, `BodyAsBelieved`, `EstopObeyed` |
| `servo_writes` | Does what is written once reach the servos, restarts and mode switches between? | `WritesInForce`, `GainsInForce`, `GainsReachServos` |
| `manager` | Can a restart by button or torque check hang, keep a callback, or leave the timer off? | `NoDeadlock`, `TimerComesBack`, `CallbackReturns` |
| `soccer` | Does a game go on after falls and kicks, and does only one thing move the legs? | `PageOrGait`, `GetupOnlyFallen`, `GamePlayed`, `FallHandled` |
| `targets` | Do targets and scans of a joint meet hand-overs without a jump, and are they reached? | `NoJump`, `HandoverEnds`, `TargetReached` |
| `online_walking` | Do four kinds of motion with one set of counters keep apart, and end? | `PlansKept`, `FeetTogether`, `EndsAtGoal`, `ControlReturns` |
| `action_editor` | Can an operator lose work, or teach a page what was not held or not a pose? | `UnsavedIsAskedFor`, `StepsAsAsked`, `PosesOnly`, `ShownIsHeld` |

Each property has a mutant in `PROJECT.json`: one line of the model changed as a plausible bug would
change the code, with which TLC finds the property violated.

### Bounds, and why they are enough

- *Controller*: two joints and two modules, one of which drives both joints and the other one of
  them, give every relation of a request to the present owner; two goal values (symmetric,
  `GoalSymmetry`) tell a stale goal from the current one; `StopTicks = 1` is a module that needs
  a cycle after `stop()`; the walking module settles, the action module brakes and, in `handover`, is
  the one that is sent commands; in `queue_returns` both are. Two joint requests: one hands every joint over, one frees a joint and
  names a module that cannot drive the other. `queue_returns` has one goal, no list
  property being in it, and a joint request fewer.
- *Action*: pages of one and two steps, repeats of one and two, an exit page, a chain, a pause, an
  accelerating step, an erased page: the cases the arithmetic of steps and sections distinguishes.
- *Walking*: two cycles in a quarter of the period tell "at the phase" from "after
  it"; a pose of two rows, two joints.
- *Base, targets*: `Far = 3` is the shortest way on which a jump of two differs both from a step and
  from the whole; `Blocked = {2}` lies inside it; two trajectory threads can overtake each other.
- *Bridge*: walking commands keep the last two, the other queues one. Only that the oldest is lost
  when a queue overflows matters, not that the code has room for ten; the proofs have any depth.
- *Servo writes*: two groups in `direct_sync_write_` at once, so that one can be joined and
  one opened, and one restart.
- *Manager*: `StopTicks = 2` leaves room for a timer stop before and between the cycles of a retiring
  module; three presses or checks.
- *Soccer*: two falls (the second may come while the first is handled), four
  messages of the user, a wait of two rounds.
- *Online walking*: poses in `0 .. Far = 1`, a `mov_time` of nothing or a cycle, plans of two steps
  (to which the code adds three), a gain or an offset that takes one cycle: two rows, or two steps, are
  enough for a stop to fall before, into and after each.
- *Editor*: a left and a right joint, positions 0 and 1 and all marks, three
  slots, two pages; one file has a page of two steps and one empty, the other one of two steps and one
  full; two commands, with any number of page changes, saves and exits between.

`manager`, `action_editor` do not check deadlock, since the process may end there.

### Fairness, and why the code justifies it

No client is obliged to send anything, and no hand-over is obliged to happen. Otherwise:

- The timer thread is weakly fair: it sleeps to the next cycle and holds `queue_mutex_`
  shortly. So are the set-module threads, trajectory threads and the executors' threads.
- A thread that needs the mutex, which the timer takes and frees for ever, is strongly fair
  (`Assign`): a mutex that is freed in every cycle is obtained.
- `JointTargets`: `SeenAtRest` and `Disable` are strongly fair. The set-module thread polls at 8 ms, and
  a module that scans is at rest for some cycles between legs; the two drift, so a poll meets one.
- `SoccerDemo`: a spin in which the stand state is up to date, and a get-up page that is played, are
  strongly fair: messages may be lost, not for ever. The demo's loop and the end of a page
  are weakly fair.
- A command whose callback has found a module enabled goes on, and so does a `stop()` that has begun.
- `BaseModule` and `ActionEditor` have no fairness: only safety properties are checked of them.

### What is assumed of clients

The program's clients are people and scripts, and some properties need them to
leave room. Every such assumption is a constant or a specification of its own, so that it can be
dropped, and TLC then shows what breaks:

| Assumption | Without it |
|---|---|
| `RobotisController`: `ConsiderateSpec`, no command is under way to a retiring module, its check of `enable_` included | `QuietHandover`, `QueueReturns` |
| `ActionModule`: `Impatient = FALSE`, a page is asked for when none is played | `InBounds`, `RepeatHonoured`: the file cursor is shared with the player |
| `WalkingModule`: `Patient`, start when the pose is reached | `GaitContinuous` |
| `WalkingModule`: `Considerate`, leave a stopping module alone | `GaitContinuous`, `KeepsContract`, `StopObeyed`; `StandsOnBothFeet` needs neither |
| `BaseModule`: `Exclusive`, nothing else is asked until the pose is reached | `NoJump` |
| `BaseModule`: `Overlap = FALSE`, no disable within process() | `NoJump` |
| `FootballBridge`: `Overlap = FALSE`, no command within the microseconds from `isRunning() = false` to the disable | `EstopStopsWalking`, `BodyAsBelieved`, `EstopObeyed` |
| `ServoWrites`: `Overlap = FALSE`, no mode message between the halves of a bus cycle | all three |
| `ServoWrites`: `Crowded = FALSE`, nothing of a kind is sent while such a write waits | `WritesInForce` |
| `SoccerDemo`: `Patient`, one start or stop after the other | `GamePlayed` |
| `SoccerDemo`: `Reenter = FALSE`, one visit to the demo | `GetupOnlyFallen`, `GamePlayed`, `FallHandled` |
| `JointTargets`: `Careful`, nothing is sent during a hand-over | `NoJump`, `HandoverEnds` |
| `JointTargets`: `Overlap = FALSE`, threads do not meet between two assignments | `NoJump` (`TargetReached` holds still) |
| `OnlineWalking`, promise `rest`: goals and `balance_off` only when nothing moves | `PlansKept`, `EndsAtGoal`, `ControlReturns` |
| promise `quiet`: nothing during a hand-over | all four |
| promise `standing`: balance on only with the legs where it will put them, body reset only with balance off | `FeetTogether`, `EndsAtGoal` |
| promise `timed`: a motion is given the time its distance takes | `EndsAtGoal`, `ControlReturns` |
| `ActionEditor`: `Clean`, no interpolation of marks | `PosesOnly` |

## 4. Known violations, kept out of the runs

Statements that a reader of the code would expect and the code does not keep. Where a definition is
named, add it to the run's `.cfg`, with the setting named, to see the trace.

| Statement | Setting | What the code does |
|---|---|---|
| `NextPageLoaded` (`ActionModule`) | `Impatient = TRUE` | `start()` seeks and reads the one `FILE*` under the player, which then loads the page after the wrong one (`action_module.cpp:904`). |
| `InitPoseReached` (`WalkingModule`) | none | The loop that leads the joints to the initial pose begins at 1 (`op3_walking_module.cpp:461`): the first joint is not led, it jumps. |
| `GoalPositionKnown` (`BaseModule`) | `Overlap = TRUE` | `has_goal_joints_` is set by a `process()` that a disable overtakes (`base_module.cpp:339`): the next pose starts from goals of the time before. |
| `ButtonCutsMotion` (`FootballBridge`) | none | A button publishes "stop" (`bridge_node.cpp:178`), but nothing cuts the motion path: a get-up may begin after it. |
| `GetupPlayed` (`FootballBridge`) | none | The get-up page is asked for while the module is still being handed over, and dropped (`l3/motion.py:193`, `l3_motion.yaml:12`). |
| `EstopStopsWalking` (`FootballBridge`) | `Overlap = TRUE` | A "start" between the last `isRunning()` and `setModuleEnable(false)` survives, an emergency stop notwithstanding (`robotis_controller.cpp:2132`). |
| `CheckSparesTimer` (`Manager`) | none | `read1Byte` is refused while the timer runs, so that every torque check restarts the controller (`op3_manager.cpp:112`); and the handler leaves without `startTimer()` when the port cannot be set (`:79`). |
| `FollowsAsAsked` (`SoccerDemo`) | none | `stopFollowing()` keeps `approach_ball_position_` (the reset at `ball_follower.cpp:106` is commented out): a stopped demo kicks at a ball of the past, and starts itself again. |
| a service is answered (base module) | `Message` without a service | The callback of an init pose goes on without a request when the service is not there (`base_module.cpp:407`), or when another module's request overtakes its own, and spins for `enable_` on the module's only executor thread (`:183`): no later command is taken. No liveness of it is claimed. |
| `NeverTerminated` (`Manager`) | none | `setCtrlModule()` joins and assigns `set_module_thread_` on the main thread, the queue thread does the same (`robotis_controller.cpp:1766`): a press in the middle of a callback joins twice or assigns over a running thread, and the process ends. |
| the timer comes back (`Manager`) | none | The button handler leaves without `startTimer()` when the port cannot be set (`op3_manager.cpp:79`): `TimerComesBack` and `CallbackReturns` count that (`failed`) as an end. |
| a page plays only in an enabled module (`ActionModule`) | none | Between the check of `enable_` (`action_module.cpp:460`) and `playing_ = true` (`:488`) the module may be disabled and braked: it is then running while it has no joints, a hand-over to it waits for nothing, and it plays that page when it is enabled again. `JointsTakenSafely` names the case (`resumed`). |
| `StopEnds` of every stop (`ActionModule`) | drop `~first` | The first `process()` after a start forgets `stop_playing_` (`action_module.cpp:650`): a stop between the two is lost and the whole chain of pages is played. |
| a motion that is stopped stays so (`OnlineWalking`) | drop `torn` | `stop()` runs between the statements of `process()`: after the look at `control_type_` (`online_walking_module.cpp:1597`) the motion begins all the same, `is_moving_` is set again, and the hand-over, which waits for it, never ends; or, if the wait is over, the next body pose plays a `WholebodyControl` that is not initialised. |
| `is_moving_` ends (`OnlineWalking`) | `Busy` with `m.moving` | A loss of balance between the two looks of a foot-step callback (`:986`) takes the kind from a walk that then starts; so does a ramp to no balance. Nothing moves, `isRunning()` stays true until a hand-over. |
| the legs do not jump (`OnlineWalking`) | no definition | `stop()` sets `des_joint_pos_` to 0 (`:1689`), and a cycle under way sends that as a goal; `process()` may set `goal_initialize_` (`:1592`) after `stop()` has cleared it (`:1694`), and `balance_type_` outlives the hand-over, so that the legs start from where they were the last time. |
| an emergency stop stops the robot (`FootballBridge`) | no definition | `estop_active_` guards walking commands only (`bridge_node.cpp:364`): a get-up thread under way, pages, module requests and joint messages go on. |
| the row exists (direct control) | not modelled apart | `process()` reads row `tra_count_` unlocked, which is one past the end when it meets the reset (`direct_control_module.cpp:149`). |

Smaller observations, made while reading:

- A walking module may take its initial pose unasked, however late: it is retired before its first cycle,
  seen at rest, and begins then; only `onModuleDisable()` ends that motion. So "seen at rest" does not mean
  "at rest when disabled" of a module that settles, and `QuietHandover` holds of it only because the
  disabling gives the pose up.
- "`// check angle limit`" in `direct_control_module.cpp:174` has no code under it. A joint that was held
  out of the blocked zone jumps to its path when the path leaves the zone; `NoJump` of `JointTargets`
  speaks of paths outside it.
- Online walking: the two halves of a foot-step command race `process()`, which can leave `is_moving_`
  with no motion to end it; an offset ends at `mov_size_ - 1` of the motion before; the goal of a
  body pose is not initialised when one comes in a motion; `balance_on` changes only the goal ratio.
- Editor: an invalid page number after "y" clears `edited_` while the page is kept, so that a later `save`
  does nothing; `goCmd_2` leaves the timer running when it returns over an invalid joint;
  interpolating a mark can make a number that `play` accepts; `insert` and `write` allow marks;
  `copy` and `new` overwrite a page without a question; `go` shows a step in STP7 whatever became of the
  joints without torque.

## 5. Proofs

TLAPS proves these for every value of the constants that meets the `ASSUME`s of their module, and the
assumption on clients named. They all have the form `Init => I`, `I /\ [Next]_vars => I'`, `I => P`. Where a module of proofs
treats more than one component, the others are instances (`Motion`, `Base`): what has the same name
in two of them is then one constant or variable of the module of proofs, but no theorem speaks of two
components, so nothing follows from the sharing. What such a component assumes of its constants is a
hypothesis of its theorems (`MotionAssumed`, `BaseAssumed`), conjuncts that are the `ASSUME`s
of its module.

| Module | Theorem | Assumes | Inductive invariant, and why it is needed |
|---|---|---|---|
| `RobotisControllerProofs` | `TypeCorrect` | | `IType`: types, with the requests the queue thread holds |
| | `ListsCurrent`: `ListsInStep` | | `ListInv`: the lists partition the joints, otherwise `addParam` would find a stale entry and refuse |
| | `HandoverSafe`: `JointsTakenSafely` | | `RetireInv`: the modules that lose joints are retired in time and disabled before the joints move; `RestInv`: a disabled module is at rest, or a command that had found it enabled, or came after the wait, has resumed it |
| | `NoOrphans`: `ModulesMatchOwners` | | `UsedInv`: an enabled module owns a joint; `IdleInv`: between requests an owner is enabled; `RetireInv` |
| | `ServiceInForce`: `ServiceDelivers` | | `IdleInv` |
| | `HandoverQuiet`: `QuietHandover` | `ConsiderateSpec` | `QuietInv`: nothing is resumed, since whoever hears a command is enabled and stays so until it has acted; `RestInv`; `RetireInv` |
| | `ModulesKeepContract` | | `SettleInv`: a module that is said to settle is in motion, so that a turn that has begun leaves it as it was |
| `ServoWritesProofs` | `GainsNeverLost`: `GainsInForce` | `~Overlap` | `GInv`: what a list holds is the gain remembered, and without an entry the servo has it; the port is free where lists are sent, so that none is cleared unsent |
| `ManagerProofs` | `TypeCorrect` | | |
| | `NobodyWaitsForEver`: `NoDeadlock` | | `WaitInv`: the timer runs whenever the main thread is in a callback's wait or between callbacks, unless the port has failed |
| | `TargetsTypeCorrect` | | `Bounded`: the row count fits the size the trajectory has, and threads are counted |
| | `NothingKeptBehind` | `Careful`, `~Overlap` | `Owned`: `Settled`, nothing is under way in a disabled module, and direct control is only taken from a joint whose motion `stop()` sees |
| | `BaseTypeCorrect`; `BaseRowsExist` | | `BaseBounded`: where `process()` is bounds `cnt_` |
| | `BaseNeverJumps`: `NoJump` of `BaseModule` | `Exclusive`, `~Overlap` | `BaseOwned`: the module has its joint from the command to the end of the move; `OnTrajectory`: the joint is at the row before `cnt_`, and where it began before the first |
| `ActionModuleProofs` | `StepsInBounds`: `InBounds`; `RepeatsHonoured`: `RepeatHonoured` | `~Impatient` | `IInv`: `Following`, at the last step of a page the next one is chosen and loaded; `Counted`, rounds played and rounds left are those of the header; `SectionsFit`, else the unsigned section lengths wrap; `Alone`, a `start()` has the file to itself |
| `ActionEditorProofs` | `TypeCorrect`; `PagesHoldPoses`: `PosesOnly` | for `PosesOnly`: `Clean`, files of proper pages | `Over(V)`: the page, the file and STP7 hold values in `V`, for `V` everything a step can hold, and for `V` the positions and invalid marks |
| | `UnsavedAsked`: `UnsavedIsAskedFor` | | itself, with the types; it excepts a page the operator let go for a number that is none |
| | `ShownHeld`: `ShownIsHeld` | | `ShownIsOn`: also a number that is no position (`Wild`) is shown of a joint with torque, or that was gone to without, since teaching can lead on from it |
| | `CommandsDoAsAsked`: `StepsAsAsked` | | none but the types; the loops of `insert`, `delete` and `move` against `InsertAt`, `RemoveAt` on sequences |
| `WalkingModuleProofs` | `GaitTypeCorrect`; `RestsOnBothFeet`: `StandsOnBothFeet` | | `IInv`: `HaltDecided`, a gait that is to end has its amplitudes at zero already; `RowsLeft`, rows of the pose remain to be played |
| | `EnabledOnlyAtRest`; `GaitNeverJumps`: `GaitContinuous` | `Patient`, `Considerate` | `Calm`: a module that is disabled, seen at rest or in its initial pose does not walk, and the legs are at the clock or one tick behind |
| | `GaitKeepsContract`: `KeepsContract` | `Considerate` | `IInv`; `Orderly`: an initial pose is begun at the end of a process() and of an enabled module; `Bounds`: what is left of a gait is at most three halves of a period, whatever parameters it meets at the ends |
| `FootballBridgeProofs` | `EstopEffective`: `EstopStopsWalking`; `BeliefRight`: `BodyAsBelieved` | `~Overlap` | `IInv`: the *last* command in the queue is the one the bridge believes in, so that losing older ones does no harm; modules at rest before a page |
| `SoccerDemoProofs` | `TypeCorrect` | | |
| | `PageAndGaitApart`: `PageOrGait` | | `BodyInv`: the body goes to the walking module only where no page can play |
| | `NothingLeftBehind` | | `GameInv`: where the loop is tells whether the demo is at work |
| | `GetupOnlyWhenFallen`: `GetupOnlyFallen` | `~Reenter` | `FallInv`: the IMU is heard while the demo is at work, and what it said is still true when used |

## 6. What is checked only, and what is not modelled

*Checked by TLC, not proved.* All liveness, since the prover has no fairness (`QueueReturns`, `StopObeyed`,
`EstopObeyed`, `GainsReachServos`, `TimerComesBack`, `CallbackReturns`, `GamePlayed`, `FallHandled`,
`HandoverEnds`, `TargetReached`, `ControlReturns`, `StopEnds`). Of the safety properties: `WritesInForce`, `PlaysPages`, `NoJump` of
`JointTargets`, and `PlansKept`, `FeetTogether`, `EndsAtGoal` of `OnlineWalking`. Every other property of
the runs is a theorem.

*Proved, not in a run of its own.* The modules' `TypeOK`, `EnabledAtRest`, `RowExists` (a conjunct of `BaseModule`'s `NoJump`),
`LeavesNothing`, `NothingKept`.

*Not modelled.* Kinematics, balance control, trajectory polynomials and filters: functions of
reals with no state to interleave, beyond TLC and TLAPS. Packet handlers and port
handlers (vendored SDK; what matters to the robot, a port in use and a failed
transmission, is in `ServoWrites`). Parsing of device and robot files. Cameras, ball and face
detectors, localization. GUI and tuning tools, which publish the same topics the models already take from
"any client". The action and vision demos: scripts of pages. The offset ramp:
one counter with one writer.

## 7. What is left

1. The controller composed with the real gait in one specification: `ModulesKeepContract` and
   `GaitKeepsContract` meet at `MotionModule`, but the composition is argued above, not proved.
2. Which of the assumptions on clients in section 3 the proofs of the other modules can do without.
   For `OnlineWalking` section 3 says which property TLC refutes when a promise is dropped.
3. `EndsAtGoal` and `FeetTogether` of `OnlineWalking` as theorems, over the interleaved `process()` and `stop()`.
4. A page that begins some time after it was published, in `SoccerDemo`: the demo asks at once whether it plays
   (`soccer_demo.cpp:548`), and the model lets it begin in the step that publishes it.
3. The offset ramp with goals that carry it.
