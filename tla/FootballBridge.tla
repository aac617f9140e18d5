--------------------------- MODULE FootballBridge ---------------------------
(***************************************************************************)
(* op3_football: an L3 client, the L1 bridge and its get-up thread, and    *)
(* what they meet in the manager: the hand-over of the body between the    *)
(* walking and the action module, the gait, and the action pages.          *)
(*                                                                         *)
(* The bridge's callbacks run one at a time; the get-up thread runs beside *)
(* them. A client's service call is one step, since it waits for the       *)
(* answer. Topics keep their last messages. What the IMU says of the       *)
(* robot's posture is any value at any time.                               *)
(*                                                                         *)
(* The waits of seconds (a page's) are long enough for the page they wait  *)
(* for, if it is played; the sleeps of 50 and 250 ms are no bound for a    *)
(* gait that takes up to two periods to stop.                              *)
(***************************************************************************)
EXTENDS Naturals, Sequences

CONSTANTS
  CommandDepth, \* the depth of the queue of walking commands
  Depth,        \* ... and of the other queues
  AutoGetup,    \* auto_getup.enabled of the bridge
  Overlap       \* whether a command may come between isRunning() = false and
                \* setModuleEnable(false), which takes microseconds

ASSUME DepthAssumption == {CommandDepth, Depth} \subseteq Nat \ {0}
ASSUME SwitchAssumption == {AutoGetup, Overlap} \subseteq BOOLEAN

VARIABLES
  program,  \* what the client has still to do
  estop,    \* estop_active_
  active,   \* walking_active_
  thread,   \* where the get-up thread is; "none": getup_in_progress_ is false
  commands, \* /robotis/walking/command
  topic,    \* /robotis/enable_ctrl_module
  service,  \* requests to /robotis/set_present_ctrl_modules
  pages,    \* /robotis/action/page_num
  owner,    \* the enabled module
  target,   \* the module the set-module thread works for
  phase,    \* where that thread is
  gait,     \* walking module: at rest, walking, or told to stop
  playing,  \* action module: playing_
  pressed   \* history: the button was pressed since the last start

bridgeVars  == <<estop, active, pressed>>
requestVars == <<topic, service>>
moduleVars  == <<owner, target, phase>>
vars == <<program, bridgeVars, thread, commands, requestVars, pages, moduleVars,
          gait, playing>>

Modules == {"walking", "action"}
Pages   == {"getup", "stand"}

\* go(), stop(), _recover_if_fallen() and stand() as the calls they make. go() and
\* walk.start() both set the module.
Programs ==
  { <<"walking", "walking", "params", "start">>,
    <<"stop">>,
    <<"stop", "action", "getup", "wait", "stand", "wait">>,
    <<"stop", "action", "stand", "wait", "walking">> }

\* Keep-last history: the oldest message makes room.
Keep(depth, queue, message) ==
  IF Len(queue) < depth THEN Append(queue, message) ELSE Append(Tail(queue), message)

Init ==
  /\ program = <<>> /\ estop = FALSE /\ active = FALSE /\ pressed = FALSE
  /\ thread = "none"
  /\ commands = <<>> /\ topic = <<>> /\ service = <<>> /\ pages = <<>>
  /\ owner = "none" /\ target = "none" /\ phase = "idle"
  /\ gait = "rest" /\ playing = FALSE

PagesDone == pages = <<>> /\ ~playing

----------------------------------------------------------------------------
(* The bridge's services and subscriptions.                                *)

\* The answer of a command under emergency stop makes the client raise.
\* Mutant: the emergency stop is not looked at.
WalkingCommandAlways(command) ==
  /\ commands' = Keep(CommandDepth, commands, command)
  /\ active' = (command = "start")
  /\ pressed' = (pressed /\ command # "start")
  /\ program' = Tail(program)
  /\ UNCHANGED <<estop, requestVars, pages>>
WalkingCommand(command) ==
  /\ IF estop
     THEN program' = <<>> /\ UNCHANGED <<commands, active, pressed>>
     ELSE /\ commands' = Keep(CommandDepth, commands, command)
          /\ active' = (command = "start")
          /\ pressed' = (pressed /\ command # "start")
          /\ program' = Tail(program)
  /\ UNCHANGED <<estop, requestVars, pages>>

SetWalkingParams ==
  /\ program' = IF estop THEN <<>> ELSE Tail(program)
  /\ UNCHANGED <<bridgeVars, commands, requestVars, pages>>

\* The request goes out as a message and, not waited for, as a service call.
SetModule(module) ==
  /\ topic' = Keep(Depth, topic, module) /\ service' = Keep(Depth, service, module)
  /\ program' = Tail(program)
  /\ UNCHANGED <<bridgeVars, commands, pages>>

\* Any client, at any time. Mutant: the gait is not told.
EstopSilent ==
  /\ estop' = TRUE /\ active' = FALSE
  /\ UNCHANGED <<program, pressed, thread, commands, requestVars, pages, moduleVars,
                 gait, playing>>
Estop ==
  /\ estop' = TRUE /\ active' = FALSE
  /\ commands' = Keep(CommandDepth, commands, "stop")
  /\ UNCHANGED <<program, pressed, thread, requestVars, pages, moduleVars, gait, playing>>

TorqueOn ==
  /\ estop' = FALSE
  /\ UNCHANGED <<program, active, pressed, thread, commands, requestVars, pages,
                 moduleVars, gait, playing>>

Button ==
  /\ commands' = Keep(CommandDepth, commands, "stop") /\ pressed' = TRUE
  /\ UNCHANGED <<program, estop, active, thread, requestVars, pages, moduleVars,
                 gait, playing>>

\* maybeHandleFallen(), with a pitch beyond a limit.
Fallen ==
  /\ AutoGetup /\ ~estop /\ active /\ thread = "none"
  /\ active' = FALSE /\ thread' = "stop"
  /\ UNCHANGED <<program, estop, pressed, commands, requestVars, pages, moduleVars,
                 gait, playing>>

----------------------------------------------------------------------------
(* The client.                                                             *)

PlayPage(page) ==
  /\ pages' = Keep(Depth, pages, page)
  /\ program' = Tail(program)
  /\ UNCHANGED <<bridgeVars, commands, requestVars>>

Wait ==
  /\ PagesDone
  /\ program' = Tail(program)
  /\ UNCHANGED <<bridgeVars, commands, requestVars, pages>>

Begin ==
  /\ program = <<>>
  /\ program' \in Programs
  /\ UNCHANGED <<bridgeVars, thread, commands, requestVars, pages, moduleVars,
                 gait, playing>>

Call ==
  /\ program # <<>>
  /\ \/ Head(program) \in Modules /\ SetModule(Head(program))
     \/ Head(program) \in {"start", "stop"} /\ WalkingCommand(Head(program))
     \/ Head(program) \in Pages /\ PlayPage(Head(program))
     \/ Head(program) = "params" /\ SetWalkingParams
     \/ Head(program) = "wait" /\ Wait
  /\ UNCHANGED <<thread, moduleVars, gait, playing>>

----------------------------------------------------------------------------
(* The get-up thread.                                                      *)

\* Mutant: the gait is not told to stop.
ThreadStopSilent ==
  /\ thread = "stop"
  /\ thread' = "topic"
  /\ UNCHANGED <<program, bridgeVars, commands, requestVars, pages, moduleVars, gait, playing>>
ThreadStop ==
  /\ thread = "stop"
  /\ commands' = Keep(CommandDepth, commands, "stop")
  /\ thread' = "topic"
  /\ UNCHANGED <<program, bridgeVars, requestVars, pages, moduleVars, gait, playing>>

ThreadTopic ==
  /\ thread = "topic"
  /\ topic' = Keep(Depth, topic, "action")
  /\ thread' = "service"
  /\ UNCHANGED <<program, bridgeVars, commands, service, pages, moduleVars, gait, playing>>

ThreadService ==
  /\ thread = "service"
  /\ service' = Keep(Depth, service, "action")
  /\ thread' = "page"
  /\ UNCHANGED <<program, bridgeVars, commands, topic, pages, moduleVars, gait, playing>>

\* 250 ms later.
ThreadPage ==
  /\ thread = "page"
  /\ pages' = Keep(Depth, pages, "getup")
  /\ thread' = "stand"
  /\ UNCHANGED <<program, bridgeVars, commands, requestVars, moduleVars, gait, playing>>

ThreadStand ==
  /\ thread = "stand" /\ PagesDone
  /\ pages' = Keep(Depth, pages, "stand")
  /\ thread' = "clear"
  /\ UNCHANGED <<program, bridgeVars, commands, requestVars, moduleVars, gait, playing>>

ThreadClear ==
  /\ thread = "clear"
  /\ thread' = "none"
  /\ UNCHANGED <<program, bridgeVars, commands, requestVars, pages, moduleVars, gait, playing>>

GetupThread ==
  ThreadStop \/ ThreadTopic \/ ThreadService \/ ThreadPage \/ ThreadStand \/ ThreadClear

----------------------------------------------------------------------------
(* The controller hands over the body.                                     *)

\* The module that has the joints is told to stop, unless it is the one asked for.
Accept(module) ==
  /\ phase = "idle"
  /\ target' = module
  /\ IF owner \in {"none", module}
     THEN phase' = "assign" /\ UNCHANGED gait
     ELSE /\ phase' = "wait"
          /\ gait' = IF owner = "walking" /\ gait = "walk" THEN "halt" ELSE gait
  /\ UNCHANGED <<program, bridgeVars, thread, commands, pages, owner, playing>>

AcceptTopic ==
  topic # <<>> /\ Accept(Head(topic)) /\ topic' = Tail(topic) /\ UNCHANGED service
AcceptService ==
  service # <<>> /\ Accept(Head(service)) /\ service' = Tail(service) /\ UNCHANGED topic

\* Mutant: nobody waits.
SeenMoving ==
  /\ phase = "wait"
  /\ phase' = "disable"
  /\ UNCHANGED <<program, bridgeVars, thread, commands, requestVars, pages, owner,
                 target, gait, playing>>
SeenAtRest ==
  /\ phase = "wait"
  /\ IF owner = "walking" THEN gait = "rest" ELSE ~playing
  /\ phase' = "disable"
  /\ UNCHANGED <<program, bridgeVars, thread, commands, requestVars, pages, owner,
                 target, gait, playing>>

\* The action module's onModuleDisable() brakes.
Disable ==
  /\ phase = "disable"
  /\ phase' = "assign" /\ owner' = "none"
  /\ playing' = (playing /\ owner # "action")
  /\ UNCHANGED <<program, bridgeVars, thread, commands, requestVars, pages, target, gait>>

Assign ==
  /\ phase = "assign"
  /\ phase' = "idle" /\ owner' = target /\ target' = "none"
  /\ UNCHANGED <<program, bridgeVars, thread, commands, requestVars, pages, gait, playing>>

Setter == AcceptTopic \/ AcceptService \/ SeenAtRest \/ Disable \/ Assign

----------------------------------------------------------------------------
(* The modules. One that is not enabled drops what it is sent.             *)

Obey(command) ==
  IF command = "start" THEN "walk" ELSE IF gait = "walk" THEN "halt" ELSE gait

DeliverCommand ==
  /\ commands # <<>>
  /\ Overlap \/ phase # "disable"
  /\ commands' = Tail(commands)
  /\ gait' = IF owner = "walking" THEN Obey(Head(commands)) ELSE gait
  /\ UNCHANGED <<program, bridgeVars, thread, requestVars, pages, moduleVars, playing>>

GaitHalts ==
  /\ owner = "walking" /\ gait = "halt"
  /\ gait' = "rest"
  /\ UNCHANGED <<program, bridgeVars, thread, commands, requestVars, pages, moduleVars, playing>>

\* A page is refused while another is played.
DeliverPage ==
  /\ pages # <<>>
  /\ Overlap \/ phase # "disable"
  /\ pages' = Tail(pages)
  /\ playing' = (playing \/ owner = "action")
  /\ UNCHANGED <<program, bridgeVars, thread, commands, requestVars, moduleVars, gait>>

PageEnds ==
  /\ owner = "action" /\ playing
  /\ playing' = FALSE
  /\ UNCHANGED <<program, bridgeVars, thread, commands, requestVars, pages, moduleVars, gait>>

Receivers == DeliverCommand \/ GaitHalts \/ DeliverPage \/ PageEnds

----------------------------------------------------------------------------
Next == Begin \/ Call \/ Estop \/ TorqueOn \/ Button \/ Fallen \/ GetupThread \/ Setter \/ Receivers

Spec == Init /\ [][Next]_vars

\* Executors deliver what they have been sent, threads and the gait go on. No client
\* has to begin anything, and no button to be pressed.
Fairness ==
  /\ WF_vars(DeliverCommand) /\ WF_vars(GaitHalts)
  /\ WF_vars(SeenAtRest \/ Disable \/ Assign)

FairSpec == Spec /\ Fairness

----------------------------------------------------------------------------
(* Properties.                                                             *)

\* Each variable ranges over the values the code can give it.
TypeOK ==
  /\ \E p \in Programs : \E n \in 0 .. Len(p) : program = SubSeq(p, n + 1, Len(p))
  /\ {estop, active, pressed, playing} \subseteq BOOLEAN
  /\ thread \in {"none", "stop", "topic", "service", "page", "stand", "clear"}
  /\ commands \in Seq({"start", "stop"}) /\ Len(commands) <= CommandDepth
  /\ topic \in Seq(Modules) /\ Len(topic) <= Depth
  /\ service \in Seq(Modules) /\ Len(service) <= Depth
  /\ pages \in Seq(Pages) /\ Len(pages) <= Depth
  /\ {owner, target} \subseteq Modules \cup {"none"}
  /\ phase \in {"idle", "wait", "disable", "assign"}
  /\ gait \in {"rest", "walk", "halt"}

\* "stopped walking; set estop_active": under emergency stop, once the commands sent
\* have been taken, the gait has been told to stop and no late start, queue that
\* overflowed or hand-over has undone it.
EstopStopsWalking == estop /\ commands = <<>> => gait # "walk"

\* The robot does not walk when the bridge believes that it does not, which is
\* when falls are not looked for.
AtRestAsBelieved ==
  ~active /\ thread # "stop" /\ commands = <<>> => gait # "walk"

\* A page, which moves the whole body, is played only while the gait is at rest.
PlayingAtRest == playing => gait = "rest"

\* What moves the body is what the bridge takes to move it.
BodyAsBelieved == AtRestAsBelieved /\ PlayingAtRest

\* An emergency stop brings the gait to rest, unless the torque is switched on again.
EstopObeyed == estop ~> (gait = "rest" \/ ~estop)

\* "Hardware e-stop: mode button stops walking and cuts aggressive motion path": no
\* get-up begins after the button and before the next start.
ButtonCutsMotion == [][pressed => ~(thread = "none" /\ thread' = "stop")]_vars

\* "Wait for get-up action page to finish": there is a page to wait for, since it
\* was not dropped on its way.
GetupPlayed ==
  [][pages # <<>> /\ pages' = Tail(pages) /\ Head(pages) = "getup" => playing']_vars
=============================================================================
