------------------------------ MODULE Manager ------------------------------
(***************************************************************************)
(* The manager node on top of the controller: a long press of the user     *)
(* button and the torque check stop the control timer, bring the servos    *)
(* back and start it again, on the node's main thread, while the           *)
(* controller's queue thread goes on serving set-module requests and a     *)
(* set-module thread may be waiting for a module to come to rest. That     *)
(* thread waits on the timer; both other threads join it, and assign its   *)
(* handle, without a lock.                                                 *)
(*                                                                         *)
(* RobotisController has the hand-over in detail; here one request retires *)
(* whatever module is in force.                                            *)
(***************************************************************************)
EXTENDS Naturals

CONSTANTS
  Modules,      \* the motion modules clients ask for
  NoModule,     \* "none"
  StopTicks,    \* control cycles a module needs to come to rest
  MaxRestarts   \* bound: button presses and torque checks

ASSUME ModulesAssumption == NoModule \notin Modules
ASSUME TicksAssumption == StopTicks \in Nat \ {0}
ASSUME RestartsAssumption == MaxRestarts \in Nat

VARIABLES
  main,      \* where the main thread is in buttonHandlerCallback() or
             \* dxlTorqueCheckCallback(), "spin" between callbacks
  cause,     \* which of the two it is in
  handled,   \* how many there have been
  torque,    \* the servos' torque_enable
  timer,     \* TRUE while timerThread() is alive
  running,   \* is_timer_running_
  stop,      \* stop_timer_
  queue,     \* where the queue thread is in a set-module callback
  asked,     \* the module its request names
  setter,    \* where the set-module thread is, "none" once joined
  target,    \* the module it sets
  inForce,   \* the module that owns the joints
  motion,    \* cycles until that module is at rest, once told to stop
  stopping,  \* it has been told to stop
  ended,     \* how the process ended, "no" while it has not
  failed     \* history: a port could not be opened

mainVars   == <<main, cause, handled>>
timerVars  == <<timer, running, stop>>
queueVars  == <<queue, asked>>
setterVars == <<setter, target, inForce>>
moduleVars == <<motion, stopping>>
endVars    == <<ended, failed>>
vars == <<mainVars, torque, timerVars, queueVars, setterVars, moduleVars, endVars>>

Targets == Modules \cup {NoModule}

\* The state once main() has started the timer and spins.
Init ==
  /\ main = "spin" /\ cause = "button" /\ handled = 0
  /\ torque = TRUE
  /\ timer = TRUE /\ running = TRUE /\ stop = FALSE
  /\ queue = "ready" /\ asked = NoModule
  /\ setter = "none" /\ target = NoModule /\ inForce = NoModule
  /\ motion = 0 /\ stopping = FALSE
  /\ ended = "no" /\ failed = FALSE

Alive == ended = "no"

----------------------------------------------------------------------------
(* The set-module thread and its two clients.                              *)

\* std::thread's assignment terminates the process over a thread that has not
\* been joined,
Launch(module) ==
  IF setter = "none"
    THEN setter' = "begun" /\ target' = module /\ UNCHANGED endVars
    ELSE ended' = "terminated" /\ UNCHANGED <<setter, target, failed>>

Joinable == setter # "none"

\* and its join() throws, which nobody catches, when somebody else is joining the
\* thread or has joined it.
Joining ==
  IF setter = "none" \/ (queue = "join" /\ main = "join")
    THEN ended' = "terminated" /\ UNCHANGED <<setter, failed>>
    ELSE setter = "done" /\ setter' = "none" /\ UNCHANGED endVars

\* setCtrlModuleCallback() and setCtrlModuleService() on the queue thread.
Request(module) ==
  /\ Alive /\ queue = "ready"
  /\ asked' = module
  /\ queue' = IF Joinable THEN "join" ELSE "assign"
  /\ UNCHANGED <<mainVars, torque, timerVars, setterVars, moduleVars, endVars>>

QueueJoins ==
  /\ Alive /\ queue = "join"
  /\ Joining
  /\ queue' = "assign"
  /\ UNCHANGED <<mainVars, torque, timerVars, asked, target, inForce, moduleVars>>

QueueAssigns ==
  /\ Alive /\ queue = "assign"
  /\ Launch(asked)
  /\ queue' = "ready"
  /\ UNCHANGED <<mainVars, torque, timerVars, asked, inForce, moduleVars>>

\* The thread tells the module in force to stop, unless it is the one asked for,
Stop ==
  /\ Alive /\ setter = "begun"
  /\ setter' = "wait"
  /\ stopping' = (inForce \notin {NoModule, target})
  /\ UNCHANGED <<mainVars, torque, timerVars, queueVars, target, inForce, motion, endVars>>

\* waits until it is at rest, which only process() brings about, disables it and
\* hands the joints over.
HandOver ==
  /\ Alive /\ setter = "wait"
  /\ inForce = target \/ motion = 0
  /\ setter' = "done" /\ inForce' = target
  /\ stopping' = FALSE
  /\ UNCHANGED <<mainVars, torque, timerVars, queueVars, target, motion, endVars>>

\* A client sets the module in force in motion; one that is being retired is
\* left alone (RobotisController has the clients that do not).
Command ==
  /\ Alive /\ inForce # NoModule /\ setter \notin {"begun", "wait"}
  /\ motion' = StopTicks
  /\ UNCHANGED <<mainVars, torque, timerVars, queueVars, setterVars, stopping, endVars>>

----------------------------------------------------------------------------
(* The timer thread.                                                       *)

\* One process(); a module comes to rest when told to, or by itself.
Cycle ==
  /\ Alive /\ timer /\ motion > 0
  /\ motion' \in {motion - 1} \cup (IF stopping THEN {} ELSE {motion})
  /\ UNCHANGED <<mainVars, torque, timerVars, queueVars, setterVars, stopping, endVars>>

\* stop_timer_ is looked at between two cycles.
TimerEnds ==
  /\ Alive /\ timer /\ stop
  /\ timer' = FALSE
  /\ UNCHANGED <<mainVars, torque, running, stop, queueVars, setterVars, moduleVars, endVars>>

----------------------------------------------------------------------------
(* The main thread.                                                        *)

\* The servos lose their torque (the robot's power switch) while nobody is
\* bringing it back.
LoseTorque ==
  /\ Alive /\ main = "spin" /\ torque
  /\ torque' = FALSE
  /\ UNCHANGED <<mainVars, timerVars, queueVars, setterVars, moduleVars, endVars>>

\* buttonHandlerCallback() on "user_long" begins with setCtrlModule("none"),
Press ==
  /\ Alive /\ main = "spin" /\ handled < MaxRestarts
  /\ main' = IF Joinable THEN "join" ELSE "assign"
  /\ cause' = "button" /\ handled' = handled + 1
  /\ UNCHANGED <<torque, timerVars, queueVars, setterVars, moduleVars, endVars>>

\* which joins the last set-module thread
MainJoins ==
  /\ Alive /\ main = "join"
  /\ Joining
  /\ main' = "assign"
  /\ UNCHANGED <<cause, handled, torque, timerVars, queueVars, target, inForce, moduleVars>>

\* and starts its own.
MainAssigns ==
  /\ Alive /\ main = "assign"
  /\ Launch(NoModule)
  /\ main' = "halt"
  /\ UNCHANGED <<cause, handled, torque, timerVars, queueVars, inForce, moduleVars>>

\* dxlTorqueCheckCallback(). read1Byte() answers COMM_PORT_BUSY and leaves the
\* result 0 as long as is_timer_running_ is set.
Check ==
  /\ Alive /\ main = "spin" /\ handled < MaxRestarts
  /\ cause' = "check" /\ handled' = handled + 1
  /\ main' = IF torque /\ ~running THEN "spin" ELSE "halt"
  /\ UNCHANGED <<torque, timerVars, queueVars, setterVars, moduleVars, endVars>>

\* stopTimer(): nothing when the timer is not running.
Halt ==
  /\ Alive /\ main = "halt"
  /\ main' = IF running THEN "stop" ELSE "port"
  /\ stop' = running
  /\ UNCHANGED <<cause, handled, torque, timer, running, queueVars, setterVars,
                 moduleVars, endVars>>

\* Mutant: stop_timer_ is left set.
TimerJoinedKept ==
  /\ Alive /\ main = "stop" /\ ~timer
  /\ running' = FALSE
  /\ main' = "port"
  /\ UNCHANGED <<cause, handled, torque, timer, stop, queueVars, setterVars, moduleVars, endVars>>
TimerJoined ==
  /\ Alive /\ main = "stop" /\ ~timer
  /\ stop' = FALSE /\ running' = FALSE
  /\ main' = "port"
  /\ UNCHANGED <<cause, handled, torque, timer, queueVars, setterVars, moduleVars, endVars>>

\* The button handler opens the port anew and gives up if it cannot, with the
\* timer stopped.
PortFails ==
  /\ Alive /\ main = "port" /\ cause = "button"
  /\ main' = "spin"
  /\ failed' = TRUE
  /\ UNCHANGED <<cause, handled, torque, timerVars, queueVars, setterVars,
                 moduleVars, ended>>

\* initializeDevice() switches the torque on; the button handler leaves it out
\* if the torque is on. A servo found with a changed EEPROM while its torque is
\* on ends the process.
\* Mutant: the button handler returns when the torque is on.
InitializeOrReturn ==
  /\ Alive /\ main = "port"
  /\ torque' = TRUE
  /\ main' = IF torque /\ cause = "button" THEN "spin" ELSE "start"
  /\ UNCHANGED <<cause, handled, timerVars, queueVars, setterVars, moduleVars, endVars>>
Initialize ==
  /\ Alive /\ main = "port"
  /\ torque' = TRUE
  /\ main' = "start"
  /\ UNCHANGED <<cause, handled, timerVars, queueVars, setterVars, moduleVars, endVars>>

ChangedEEPROM ==
  /\ Alive /\ main = "port" /\ cause = "check" /\ torque
  /\ ended' = "exit"
  /\ UNCHANGED <<mainVars, torque, timerVars, queueVars, setterVars, moduleVars,
                 failed>>

\* startTimer(): ten failures of the first bulk read end the process.
Start ==
  /\ Alive /\ main = "start"
  /\ timer' = TRUE /\ running' = TRUE
  /\ main' = "spin"
  /\ UNCHANGED <<cause, handled, torque, stop, queueVars, setterVars, moduleVars, endVars>>

FirstReadFails ==
  /\ Alive /\ main = "start"
  /\ ended' = "exit"
  /\ UNCHANGED <<mainVars, torque, timerVars, queueVars, setterVars, moduleVars,
                 failed>>

----------------------------------------------------------------------------

Callback   == QueueJoins \/ QueueAssigns
Setter     == Stop \/ HandOver
Handler    == MainJoins \/ MainAssigns \/ Halt \/ TimerJoined \/ Initialize \/ Start
Failure    == PortFails \/ ChangedEEPROM \/ FirstReadFails
Environment ==
  \/ \E m \in Targets : Request(m)
  \/ Command \/ LoseTorque \/ Press \/ Check

Next == Callback \/ Setter \/ Cycle \/ TimerEnds \/ Handler \/ Failure \/ Environment

\* Every thread runs on; clients need not ask, and nothing need fail. A module
\* told to stop is brought to rest by the cycles that follow.
Spec ==
  /\ Init /\ [][Next]_vars
  /\ WF_vars(Callback) /\ WF_vars(Setter)
  /\ WF_vars(Cycle) /\ WF_vars(TimerEnds) /\ WF_vars(Handler)

----------------------------------------------------------------------------
(* Properties.                                                             *)

\* What each variable may hold.
TypeOK ==
  /\ main \in {"spin", "join", "assign", "halt", "stop", "port", "start"}
  /\ cause \in {"button", "check"}
  /\ handled \in 0 .. MaxRestarts
  /\ {torque, timer, running, stop, stopping} \subseteq BOOLEAN
  /\ queue \in {"ready", "join", "assign"} /\ asked \in Targets
  /\ setter \in {"none", "begun", "wait", "done"}
  /\ target \in Targets /\ inForce \in Targets
  /\ motion \in 0 .. StopTicks
  /\ ended \in {"no", "exit", "terminated"}

\* Nobody joins a set-module thread that waits for a module which only a
\* stopped timer could bring to rest, when that somebody would have to start
\* the timer or nobody would: but for a button handler that could not open its
\* port and has left the timer stopped.
NoDeadlock ==
  ~failed =>
    ~ /\ setter = "wait" /\ motion > 0 /\ inForce # target /\ ~timer
      /\ main = "join" \/ (queue = "join" /\ main = "spin")

\* A press or a check ends with the timer running, or the process or the port
\* has failed.
TimerComesBack == (main # "spin") ~> (main = "spin" /\ timer) \/ ~Alive \/ failed

\* A set-module callback returns across restarts of the timer, though what it
\* joins waits for that timer, wherever a press falls: or the process or the port
\* has failed.
CallbackReturns == (queue # "ready") ~> queue = "ready" \/ ~Alive \/ failed

\* The code does not keep the two that follow.

\* The set-module thread's handle is shared by the queue thread and the
\* manager's: no thread is started over one that has not been joined, and none is
\* joined twice.
NeverTerminated == ended # "terminated"

\* dxlTorqueCheckCallback() says "check dxl torque ... if not, torque on": a
\* check restarts the controller only if the torque is off.
CheckSparesTimer ==
  [][main = "spin" /\ main' = "halt" /\ cause' = "check" => ~torque]_vars
=============================================================================
