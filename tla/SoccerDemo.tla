----------------------------- MODULE SoccerDemo -----------------------------
(***************************************************************************)
(* The demo node and its soccer demo: one thread that loops over "apply    *)
(* the demo asked for", process() and spin_some(), with waits for whole    *)
(* motion pages inside each of the three. Callbacks run in spin_some()     *)
(* only, so what they leave behind (the stand state, the start and stop    *)
(* flags, the restart) is used much later than it was true.                *)
(*                                                                         *)
(* Around it: the robot, which may fall at any moment; the action module,  *)
(* which plays one page at a time; and the walking module's gait. Every    *)
(* page and gait command goes out on a publisher made for that one message *)
(* and may be lost.                                                        *)
(***************************************************************************)
EXTENDS Naturals

CONSTANTS
  WaitTicks,    \* wait_count_ after a start (SPIN_RATE in the code)
  MaxFalls,     \* bound: falls of the robot
  MaxCommands,  \* bound: messages of the user
  Patient,      \* TRUE: a start or stop comes when the last one, or a restart, is over
  Reenter       \* TRUE: the soccer demo is entered a second time

ASSUME WaitAssumption == WaitTicks \in Nat \ {0}
ASSUME BoundsAssumption == MaxFalls \in Nat /\ MaxCommands \in Nat
ASSUME UserAssumption == Patient \in BOOLEAN /\ Reenter \in BOOLEAN

VARIABLES
  pc,        \* where the loop is
  back,      \* where startSoccerMode() returns to
  status,    \* current_status
  desired,   \* desired_status
  apply,     \* apply_desired
  enable,    \* enable_ of the soccer demo
  imu,       \* imu_data_sub_ is there
  stand,     \* stand_state_
  following, \* on_following_ball_
  tracking,  \* on_tracking_ball_
  restart,   \* restart_soccer_
  startFlag, \* start_following_
  stopFlag,  \* stop_following_
  wait,      \* wait_count_
  tracker,   \* the ball tracker's own on_tracking_
  seen,      \* tracking_status_
  approach,  \* the ball follower's approach_ball_position_
  posture,   \* the robot stands or lies
  body,      \* the module that has the body's joints
  gait,      \* the walking module walks
  page,      \* the page the action module plays
  falls,     \* falls so far
  commands,  \* messages so far
  asked      \* history: the user's last wish, TRUE for soccer

nodeVars   == <<status, desired, apply>>
flagVars   == <<following, restart, startFlag, stopFlag, asked>>
ballVars   == <<tracking, tracker, seen, approach, wait>>
robotVars  == <<posture, body, gait, page>>
senseVars  == <<enable, imu, stand>>
countVars  == <<falls, commands>>
vars == <<pc, back, nodeVars, senseVars, flagVars, ballVars, robotVars, countVars>>

Init ==
  /\ pc = "apply" /\ back = "spin"
  /\ status = "ready" /\ desired = "ready" /\ apply = FALSE
  /\ enable = FALSE /\ imu = TRUE /\ stand = "stands"
  /\ following = FALSE /\ restart = FALSE /\ startFlag = FALSE /\ stopFlag = FALSE
  /\ tracking = FALSE /\ tracker = FALSE /\ asked = FALSE
  /\ wait = 0 /\ seen = "waiting" /\ approach = "none"
  /\ posture = "stands" /\ body = "base" /\ gait = FALSE /\ page = "none"
  /\ falls = 0 /\ commands = 0

----------------------------------------------------------------------------
(* What the node asks of the modules.                                      *)

\* setModuleToDemo("action_module"): the service returns once the walking
\* module has come to rest. playMotion() then: the page starts unless its
\* message is lost or another page plays.
Play(p) ==
  /\ body' = "action" /\ gait' = FALSE
  /\ page' \in {page} \cup (IF page = "none" THEN {p} ELSE {})
  /\ UNCHANGED posture

\* setWalkingCommand("start"), taken only by an enabled walking module, and
\* "stop"; either may be lost.
GaitStarts == gait' \in {gait, gait \/ body = "walking"}
GaitStops  == gait' \in {gait, FALSE}

\* startSoccerMode() up to its wait for the page.
StartSoccer(return) ==
  /\ Play("ready")
  /\ pc' = "readying" /\ back' = return

\* It goes on when isActionRunning() is false: the body goes to the walking
\* module and the flags are set.
\* Mutant: the page is not waited for.
ReadyUnwaited ==
  /\ pc = "readying"
  /\ pc' = IF back = "apply" THEN "applied" ELSE "spin"
  /\ body' = "walking"
  /\ following' = TRUE /\ tracking' = TRUE /\ startFlag' = TRUE
  /\ UNCHANGED <<back, nodeVars, senseVars, restart, stopFlag, asked, tracker, seen,
                 approach, wait, posture, gait, page, countVars>>
Ready ==
  /\ pc = "readying" /\ page = "none"
  /\ pc' = IF back = "apply" THEN "applied" ELSE "spin"
  /\ body' = "walking"
  /\ following' = TRUE /\ tracking' = TRUE /\ startFlag' = TRUE
  /\ UNCHANGED <<back, nodeVars, senseVars, restart, stopFlag, asked, tracker, seen,
                 approach, wait, posture, gait, page, countVars>>

----------------------------------------------------------------------------
(* The loop of main(): the demo asked for.                                 *)

NothingToApply ==
  /\ pc = "apply" /\ ~apply
  /\ pc' = "process"
  /\ UNCHANGED <<back, nodeVars, senseVars, flagVars, ballVars, robotVars, countVars>>

\* Out of the soccer demo: setDemoDisable() clears its flags and gives up the
\* IMU, which only setNode() subscribes to. goInitPose() hands the body to the
\* base module, which takes it when gait and page have ended.
LeaveSoccer ==
  /\ pc = "apply" /\ apply /\ status = "soccer"
  /\ enable' = FALSE /\ imu' = FALSE
  /\ following' = FALSE /\ restart' = FALSE /\ startFlag' = FALSE /\ stopFlag' = FALSE
  /\ tracking' = FALSE /\ tracker' = FALSE /\ wait' = 0 /\ seen' = "waiting"
  /\ body' = "base" /\ gait' = FALSE /\ page' = "none"
  /\ status' = desired /\ apply' = FALSE
  /\ pc' = "process"
  /\ UNCHANGED <<back, desired, stand, asked, approach, posture, countVars>>

EnterSoccer ==
  /\ pc = "apply" /\ apply /\ status = "ready"
  /\ enable' = TRUE
  /\ StartSoccer("apply")
  /\ UNCHANGED <<nodeVars, imu, stand, flagVars, ballVars, countVars>>

Applied ==
  /\ pc = "applied"
  /\ status' = desired /\ apply' = FALSE
  /\ pc' = "process"
  /\ UNCHANGED <<back, desired, senseVars, flagVars, ballVars, robotVars, countVars>>

----------------------------------------------------------------------------
(* process() of the soccer demo.                                           *)

NoProcess ==
  /\ pc = "process" /\ ~(status = "soccer" /\ enable)
  /\ pc' = "spin"
  /\ UNCHANGED <<back, nodeVars, senseVars, flagVars, ballVars, robotVars, countVars>>

Process == pc = "process" /\ status = "soccer" /\ enable

\* The start flag is looked at first and the stop flag then, whichever came
\* first; the rest waits for wait_count_.
NoFlags ==
  /\ Process /\ ~startFlag /\ ~stopFlag
  /\ IF wait = 0 THEN pc' = "ball" /\ UNCHANGED wait
                 ELSE pc' = "spin" /\ wait' = wait - 1
  /\ UNCHANGED <<back, nodeVars, senseVars, flagVars, tracking, tracker, seen, approach,
                 robotVars, countVars>>

StartFollowing ==
  /\ Process /\ startFlag /\ ~stopFlag
  /\ tracker' = TRUE /\ GaitStarts
  /\ startFlag' = FALSE /\ wait' = WaitTicks - 1
  /\ pc' = "spin"
  /\ UNCHANGED <<back, nodeVars, senseVars, following, restart, stopFlag, asked,
                 tracking, seen, approach, posture, body, page, countVars>>

StopFollowing ==
  /\ Process /\ stopFlag
  /\ tracker' = FALSE
  /\ gait' \in {gait, gait \/ (startFlag /\ body = "walking"), FALSE}
  /\ startFlag' = FALSE /\ stopFlag' = FALSE /\ wait' = 0
  /\ pc' = "ball"
  /\ UNCHANGED <<back, nodeVars, senseVars, following, restart, asked, tracking, seen,
                 approach, posture, body, page, countVars>>

\* Following goes by the last tracking status: a ball found is approached until
\* it has been within reach 20 times, and without one the last approach stays.
Follow ==
  IF following /\ seen = "found"
    THEN /\ approach' \in {"none", "far", "near"}
         /\ IF approach' = "far" THEN UNCHANGED gait ELSE GaitStops
    ELSE UNCHANGED <<approach, gait>>

Track ==
  IF tracking
    THEN seen' \in IF tracker THEN {"found", "notfound", "waiting"} ELSE {"notfound"}
    ELSE UNCHANGED seen

Ball ==
  /\ pc = "ball"
  /\ Follow /\ Track
  /\ pc' = "stand"
  /\ UNCHANGED <<back, nodeVars, senseVars, flagVars, tracking, tracker, wait,
                 posture, body, page, countVars>>

Restarting ==
  /\ pc = "stand" /\ stand = "stands" /\ restart
  /\ restart' = FALSE
  /\ StartSoccer("spin")
  /\ UNCHANGED <<nodeVars, senseVars, following, startFlag, stopFlag, asked, ballVars,
                 countVars>>

NothingNear ==
  /\ pc = "stand" /\ stand = "stands" /\ ~restart /\ approach # "near"
  /\ pc' = "spin"
  /\ UNCHANGED <<back, nodeVars, senseVars, flagVars, ballVars, robotVars, countVars>>

\* The gait is told to stop, and 2 s later handleKick() takes the body.
BallNear ==
  /\ pc = "stand" /\ stand = "stands" /\ ~restart /\ approach = "near"
  /\ GaitStops
  /\ pc' = "kick"
  /\ UNCHANGED <<back, nodeVars, senseVars, flagVars, ballVars, posture, body, page,
                 countVars>>

Kick ==
  /\ pc = "kick"
  /\ Play("kick")
  /\ following' = FALSE /\ restart' = TRUE
  /\ seen' = "notfound" /\ approach' = "none"
  /\ pc' = "spin"
  /\ UNCHANGED <<back, nodeVars, senseVars, startFlag, stopFlag, asked, tracking,
                 tracker, wait, countVars>>

\* handleFallen(): the get-up page, and its end is waited for.
Fallen ==
  /\ pc = "stand" /\ stand = "fallen"
  /\ Play("getup")
  /\ pc' = "getup"
  /\ UNCHANGED <<back, nodeVars, senseVars, flagVars, ballVars, countVars>>

\* Mutant: the demo goes on without being restarted.
GotUpForgotten ==
  /\ pc = "getup" /\ page = "none"
  /\ following' = FALSE
  /\ pc' = "spin"
  /\ UNCHANGED <<back, nodeVars, senseVars, restart, startFlag, stopFlag, asked, ballVars,
                 robotVars, countVars>>
\* Mutant: the end of the page is not waited for.
GotUpUnwaited ==
  /\ pc = "getup"
  /\ restart' = (restart \/ following) /\ following' = FALSE
  /\ pc' = "spin"
  /\ UNCHANGED <<back, nodeVars, senseVars, startFlag, stopFlag, asked, ballVars,
                 robotVars, countVars>>
GotUp ==
  /\ pc = "getup" /\ page = "none"
  /\ restart' = (restart \/ following) /\ following' = FALSE
  /\ pc' = "spin"
  /\ UNCHANGED <<back, nodeVars, senseVars, startFlag, stopFlag, asked, ballVars,
                 robotVars, countVars>>

----------------------------------------------------------------------------
(* spin_some(): the user's messages and the IMU.                           *)

Message == pc = "spin" /\ commands < MaxCommands /\ commands' = commands + 1

Settled == ~restart /\ ~startFlag /\ ~stopFlag

\* "start" on /robotis/demo_command, or the start button: a toggle.
StartCommand ==
  /\ Message /\ status = "soccer" /\ enable /\ ~following
  /\ Patient => Settled
  /\ asked' = (desired = "soccer")
  /\ StartSoccer("spin")
  /\ UNCHANGED <<nodeVars, senseVars, following, restart, startFlag, stopFlag, ballVars, falls>>

\* "stop", or "start" while following: stopSoccerMode().
StopCommand ==
  /\ Message /\ status = "soccer" /\ enable
  /\ Patient => Settled
  /\ asked' = FALSE
  /\ following' = FALSE /\ tracking' = FALSE
  /\ stopFlag' = TRUE
  /\ UNCHANGED <<pc, back, nodeVars, senseVars, restart, startFlag,
                 tracker, seen, approach, wait, robotVars, falls>>

\* "soccer" on /robotis/mode_command, or the start button in the ready state.
ChooseSoccer ==
  /\ Message /\ status = "ready"
  /\ Reenter \/ imu
  /\ desired' = "soccer" /\ apply' = TRUE /\ asked' = TRUE
  /\ UNCHANGED <<pc, back, status, senseVars, following, restart, startFlag, stopFlag,
                 ballVars, robotVars, falls>>

\* "ready", or the mode button held.
ChooseReady ==
  /\ Message /\ status = "soccer"
  /\ desired' = "ready" /\ apply' = TRUE /\ asked' = FALSE
  /\ UNCHANGED <<pc, back, status, senseVars, following, restart, startFlag, stopFlag,
                 ballVars, robotVars, falls>>

\* imuDataCallback() has run once by the end of each spin_some(), if the demo is
\* enabled and still subscribed. Its filter needs a few messages to see a fall and
\* one to see that the robot stands again (0.6 * 90 degrees is below the limit).
Sensed == IF posture = "stands" THEN {"stands"} ELSE {stand, "fallen"}

\* Mutant: the IMU is not looked at while the robot does not follow the ball.
EndSpinFollowing ==
  /\ pc = "spin"
  /\ stand' \in IF enable /\ imu /\ following THEN Sensed ELSE {stand}
  /\ pc' = "apply"
  /\ UNCHANGED <<back, nodeVars, enable, imu, flagVars, ballVars, robotVars, countVars>>
EndSpin ==
  /\ pc = "spin"
  /\ stand' \in IF enable /\ imu THEN Sensed ELSE {stand}
  /\ pc' = "apply"
  /\ UNCHANGED <<back, nodeVars, enable, imu, flagVars, ballVars, robotVars, countVars>>

----------------------------------------------------------------------------
(* The robot.                                                              *)

Fall ==
  /\ posture = "stands" /\ falls < MaxFalls
  /\ posture' = "fallen" /\ falls' = falls + 1
  /\ UNCHANGED <<pc, back, nodeVars, senseVars, flagVars, ballVars, body, gait, page,
                 commands>>

\* A page comes to its end; the get-up page leaves the robot standing.
PageEnds ==
  /\ page # "none"
  /\ page' = "none"
  /\ posture' = IF page = "getup" THEN "stands" ELSE posture
  /\ UNCHANGED <<pc, back, nodeVars, senseVars, flagVars, ballVars, body, gait, countVars>>

----------------------------------------------------------------------------

Loop ==
  \/ NothingToApply \/ LeaveSoccer \/ EnterSoccer \/ Ready \/ Applied
  \/ NoProcess \/ NoFlags \/ StartFollowing \/ StopFollowing \/ Ball
  \/ Restarting \/ NothingNear \/ BallNear \/ Kick \/ Fallen \/ GotUp
  \/ EndSpin

User == StartCommand \/ StopCommand \/ ChooseSoccer \/ ChooseReady

Next == Loop \/ User \/ Fall \/ PageEnds

\* The loop runs at 30 Hz, pages end, a fall is seen in the end, and of the get-up
\* pages asked for again and again some are delivered. Nobody need fall, and no
\* message need come.
Spec ==
  /\ Init /\ [][Next]_vars
  /\ WF_vars(Loop) /\ WF_vars(PageEnds)
  /\ SF_vars(EndSpin /\ stand' = posture)
  /\ SF_vars(Fallen /\ page' = "getup")

----------------------------------------------------------------------------
(* Properties.                                                             *)

\* What each variable may hold.
FlagsOK ==
  /\ apply \in BOOLEAN /\ enable \in BOOLEAN /\ imu \in BOOLEAN
  /\ following \in BOOLEAN /\ tracking \in BOOLEAN /\ tracker \in BOOLEAN
  /\ restart \in BOOLEAN /\ startFlag \in BOOLEAN /\ stopFlag \in BOOLEAN
  /\ gait \in BOOLEAN /\ asked \in BOOLEAN
CountsOK ==
  /\ wait \in 0 .. WaitTicks
  /\ falls \in 0 .. MaxFalls /\ commands \in 0 .. MaxCommands
StatesOK ==
  /\ pc \in {"apply", "readying", "applied", "process", "ball", "stand", "kick",
             "getup", "spin"}
  /\ back \in {"apply", "spin"}
  /\ status \in {"ready", "soccer"} /\ desired \in {"ready", "soccer"}
  /\ stand \in {"stands", "fallen"} /\ posture \in {"stands", "fallen"}
  /\ seen \in {"found", "notfound", "waiting"}
  /\ approach \in {"none", "far", "near"}
  /\ body \in {"base", "action", "walking"}
  /\ page \in {"none", "ready", "getup", "kick"}
TypeOK == FlagsOK /\ CountsOK /\ StatesOK

\* Page and gait never move the legs together, and the gait never outlives the
\* walking module's ownership.
PageOrGait == gait => page = "none" /\ body = "walking"

\* A stop is a stop: the demo follows no ball after "Stop Soccer Demo" until it
\* is asked to again.
FollowsAsAsked == following => asked \/ apply

\* The get-up page is played by a robot that lies.
GetupOnlyFallen == page = "getup" => posture = "fallen"

\* Outside its demo the soccer demo has nothing left to do, and nothing of a
\* former game is left to start by itself.
LeavesNothing ==
  ~enable => ~following /\ ~tracking /\ ~restart /\ ~startFlag /\ ~stopFlag

\* A game asked for is played, after falls and kicks too: the node follows the
\* ball with the tracker on, or the user has changed their mind.
GamePlayed == asked ~> (following /\ tracker) \/ ~asked

\* A robot that has fallen in the soccer demo gets up.
FallHandled == (posture = "fallen" /\ enable) ~> (posture = "stands" \/ ~enable)
=============================================================================
