------------------------- MODULE RobotisController -------------------------
(***************************************************************************)
(* The core of ROBOTIS-Framework: how the controller hands joints from one *)
(* motion module to another while it runs.                                 *)
(*                                                                         *)
(* Four kinds of actor share the state below:                              *)
(*   - the timer thread, one process() per control cycle;                  *)
(*   - the queue thread, one ROS callback or service at a time;            *)
(*   - the set-module thread, started by a request and joined by the next; *)
(*   - the modules' own command topics, which set a module in motion.      *)
(*                                                                         *)
(* queue_mutex_ is held across several steps only by the timer thread's    *)
(* module pass (timer = "modules"); every other critical section is one    *)
(* action guarded by MutexFree.                                            *)
(***************************************************************************)
EXTENDS Integers, FiniteSets

CONSTANTS
  Joints,         \* the Dynamixels of robot_->dxls_
  Modules,        \* motion_modules_
  NoModule,       \* the owner "none" (and the empty name, treated alike)
  Unknown,        \* a requested name that no module has
  Results,        \* the joints in result_ of each module
  ControlMode,    \* getControlMode() of each module
  Goals,          \* goal values told apart by the properties
  Absent,         \* "no entry" in a sync-write list
  JointRequests,  \* the joint-to-module maps clients send
  Braking,        \* modules whose onModuleDisable() ends their motion
  Commanded,      \* modules that clients send start commands to
  Restartable,    \* modules that take a start command while they move
  Settling,       \* modules that may move by themselves after they have been enabled
  StopTicks       \* process() calls a module needs to come to rest

ASSUME SetsAssumption ==
  /\ IsFiniteSet(Joints) /\ IsFiniteSet(Modules)
  /\ NoModule \notin Modules
  /\ Unknown \notin Modules /\ Unknown # NoModule
  /\ Absent \notin Goals
  /\ Braking \subseteq Modules
  /\ Commanded \subseteq Modules
  /\ Restartable \subseteq Modules
  /\ Settling \subseteq Modules
ASSUME ResultsAssumption == Results \in [Modules -> SUBSET Joints]
ASSUME ControlModeAssumption ==
  ControlMode \in [Modules -> {"position", "velocity", "current"}]
ASSUME StopTicksAssumption == StopTicks \in Nat \ {0}
ASSUME JointRequestsAssumption ==
  \A r \in JointRequests :
    /\ DOMAIN r \subseteq Joints
    /\ r \in [DOMAIN r -> Modules \cup {NoModule, Unknown}]

VARIABLES
  mode,       \* controller_mode_
  timer,      \* where the timer thread is in process()
  turn,       \* the modules its pass has still to visit
  goal,       \* goal_position_, goal_velocity_, goal_torque_ of each joint
  list,       \* each joint's entry in each sync-write list
  owner,      \* ctrl_module_name_
  enabled,    \* getModuleEnable()
  settling,   \* whether a module's motion of its own is "due", is "now", or "no"
  motion,     \* process() calls before isRunning() is false
  stopping,   \* stop() asked for and not yet forgotten
  heard,      \* modules a command has found enabled and is about to set in motion
  resumed,    \* history: retired and disabled modules a command has set in motion since
              \* they were seen at rest or, those that brake, since they were disabled
  callback,   \* where the queue thread is in a set-module callback
  pending,    \* the request that callback holds
  phase,      \* where the set-module thread is
  request,    \* the request it serves, or served last
  retire,     \* its stop_modules
  todo        \* those the current loop has still to visit

controlVars == <<mode, callback, pending>>
timerVars   == <<timer, turn>>
jointVars   == <<goal, list, owner>>
moduleVars  == <<enabled, settling, motion, stopping, heard, resumed>>
setterVars  == <<phase, request, retire, todo>>
vars == <<controlVars, timerVars, jointVars, moduleVars, setterVars>>

\* A motion module as the controller sees it, whatever it computes.
Contract(m) == INSTANCE MotionModule WITH
  Braking <- m \in Braking, Restartable <- m \in Restartable, Settles <- m \in Settling,
  enabled <- enabled[m], settling <- settling[m], motion <- motion[m],
  stopping <- stopping[m], heard <- m \in heard,
  busy <- timer = "modules" /\ m \in turn

Owners == Modules \cup {NoModule}
Lists  == {"position"} \cup {ControlMode[m] : m \in Modules}

ModuleRequest(n) == [kind |-> "module", target |-> n]
JointRequest(r)  == [kind |-> "joints", assign |-> r]
Malformed        == [kind |-> "malformed"]
NoRequest        == [kind |-> "nothing"]

Requests ==
  {ModuleRequest(n) : n \in Modules \cup {NoModule, Unknown}}
    \cup {JointRequest(r) : r \in JointRequests} \cup {Malformed}

MutexFree == timer # "modules"

\* GroupSyncWrite::changeParam: only an entry that is there is changed.
\* Mutant: addParam in its place, which keeps an entry that is there.
ChangeParamAsAdd(j, l, v) ==
  IF list[j][l] = Absent THEN [list[j] EXCEPT ![l] = v] ELSE list[j]
ChangeParam(j, l, v) ==
  IF list[j][l] # Absent THEN [list[j] EXCEPT ![l] = v] ELSE list[j]

(***************************************************************************)
(* initializeSyncWrite() leaves every joint in the position list alone,    *)
(* with the present position as its goal; nobody owns a joint yet.         *)
(***************************************************************************)
Init ==
  /\ mode = "motion"
  /\ timer = "sync" /\ turn = {}
  /\ \E g \in Goals : goal = [j \in Joints |-> [l \in Lists |-> g]]
  /\ list = [j \in Joints |->
              [l \in Lists |-> IF l = "position" THEN goal[j][l] ELSE Absent]]
  /\ owner = [j \in Joints |-> NoModule]
  /\ enabled = [m \in Modules |-> FALSE]
  /\ settling = [m \in Modules |-> "no"]
  /\ motion = [m \in Modules |-> 0]
  /\ stopping = [m \in Modules |-> FALSE]
  /\ heard = {} /\ resumed = {}
  /\ callback = "ready" /\ pending = NoRequest
  /\ phase = "idle" /\ request = NoRequest /\ retire = {} /\ todo = {}

----------------------------------------------------------------------------
(* The timer thread.                                                       *)

\* First half of process(): bulk read, then (in motion mode) the sync-write
\* lists go out. Nothing the other threads can see changes.
Transmit ==
  /\ timer = "sync"
  /\ timer' = "gate"
  /\ UNCHANGED <<turn, controlVars, jointVars, moduleVars, setterVars>>

\* controller_mode_ is read again, without the mutex, before the module pass.
ReadMode ==
  /\ timer = "gate"
  /\ timer' = IF mode = "motion" THEN "locking" ELSE "sync"
  /\ UNCHANGED <<turn, controlVars, jointVars, moduleVars, setterVars>>

LockForModules ==
  /\ timer = "locking"
  /\ timer' = "modules"
  /\ turn' = Modules
  /\ UNCHANGED <<controlVars, jointVars, moduleVars, setterVars>>

SkipDisabled(m) ==
  /\ timer = "modules" /\ m \in turn
  /\ ~enabled[m]
  /\ turn' = turn \ {m}
  /\ UNCHANGED <<timer, controlVars, jointVars, moduleVars, setterVars>>

\* What a module leaves in its results is its own business: any goal; what it
\* leaves of its motion is what MotionModule says.
RunModule(m) ==
  /\ timer = "modules" /\ m \in turn
  /\ enabled[m]
  /\ turn' = turn \ {m}
  /\ \E n \in Contract(m)!AfterProcess :
       /\ motion' = [motion EXCEPT ![m] = n]
       /\ settling' = [settling EXCEPT ![m] = Contract(m)!Settled(n)]
  /\ \E result \in [Results[m] -> Goals] :
       LET c == ControlMode[m]
           mine == {j \in Results[m] : owner[j] = m}
       IN  /\ goal' = [j \in Joints |->
                 IF j \in mine THEN [goal[j] EXCEPT ![c] = result[j]] ELSE goal[j]]
           /\ list' = [j \in Joints |->
                 IF j \in mine THEN ChangeParam(j, c, result[j]) ELSE list[j]]
  /\ UNCHANGED <<timer, owner, enabled, stopping, heard, resumed, controlVars, setterVars>>

UnlockModules ==
  /\ timer = "modules" /\ turn = {}
  /\ timer' = "sync"
  /\ UNCHANGED <<turn, controlVars, jointVars, moduleVars, setterVars>>

Timer ==
  \/ Transmit \/ ReadMode \/ LockForModules \/ UnlockModules
  \/ \E m \in Modules : SkipDisabled(m) \/ RunModule(m)

----------------------------------------------------------------------------
(* Commands to the modules, taken on the modules' own queue threads without *)
(* a lock: the module is found enabled, and set in motion in a later step.  *)

HearCommand(m) ==
  /\ enabled[m] /\ m \notin heard
  /\ motion[m] = 0 \/ m \in Restartable
  /\ heard' = heard \cup {m}
  /\ UNCHANGED <<enabled, settling, motion, stopping, resumed,
                 controlVars, timerVars, jointVars, setterVars>>

Command(m) ==
  /\ m \in heard
  /\ heard' = heard \ {m}
  /\ resumed' = IF m \in retire \/ ~enabled[m] THEN resumed \cup {m} ELSE resumed
  /\ motion' = [motion EXCEPT ![m] = StopTicks]
  /\ stopping' = [stopping EXCEPT ![m] = FALSE]
  /\ settling' = [settling EXCEPT ![m] = IF @ = "due" THEN "due" ELSE "no"]
  /\ UNCHANGED <<enabled, controlVars, timerVars, jointVars, setterVars>>

----------------------------------------------------------------------------
(* The queue thread: one callback at a time.                               *)

SetControllerMode(c) ==
  /\ callback = "ready"
  /\ mode' = c
  /\ UNCHANGED <<callback, pending, timerVars, jointVars, moduleVars, setterVars>>

\* A message names some joints; those of a module are refused in motion mode.
SetJointStates(position) ==
  /\ callback = "ready" /\ MutexFree
  /\ LET taken == {j \in DOMAIN position : mode = "direct" \/ owner[j] = NoModule}
     IN  /\ goal' = [j \in Joints |->
               IF j \in taken THEN [goal[j] EXCEPT !["position"] = position[j]] ELSE goal[j]]
         /\ list' = [j \in Joints |->
               IF j \in taken THEN ChangeParam(j, "position", position[j]) ELSE list[j]]
  /\ UNCHANGED <<owner, controlVars, timerVars, moduleVars, setterVars>>

\* By the topic or by the service; the topic drops a malformed request before it
\* joins anything.
Receive(r) ==
  /\ callback = "ready"
  /\ \/ r.kind # "malformed" /\ callback' = "join"
     \/ callback' = "serve"
  /\ pending' = r
  /\ UNCHANGED <<mode, timerVars, jointVars, moduleVars, setterVars>>

\* join() of the previous set-module thread, then std::thread(...). A service
\* goes on to join the new thread; a topic callback returns.
Launch ==
  /\ callback \in {"join", "serve"} /\ phase = "idle"
  /\ IF pending.kind = "malformed"
     THEN callback' = "ready" /\ pending' = NoRequest /\ UNCHANGED <<phase, request>>
     ELSE /\ phase' = "collect" /\ request' = pending
          /\ IF callback = "serve"
             THEN callback' = "await" /\ UNCHANGED pending
             ELSE callback' = "ready" /\ pending' = NoRequest
  /\ UNCHANGED <<mode, retire, todo, timerVars, jointVars, moduleVars>>

Answer ==
  /\ callback = "await" /\ phase = "idle"
  /\ callback' = "ready" /\ pending' = NoRequest
  /\ UNCHANGED <<mode, timerVars, jointVars, moduleVars, setterVars>>

Queue ==
  \/ \E c \in {"motion", "direct"} : SetControllerMode(c)
  \/ \E named \in SUBSET Joints : \E position \in [named -> Goals] : SetJointStates(position)
  \/ \E r \in Requests : Receive(r)
  \/ Launch \/ Answer

----------------------------------------------------------------------------
(* The set-module thread.                                                  *)

\* The modules that lose a joint by the request, as far as they are enabled.
\* Mutants: only those that move are stopped; "none" stops nobody.
LosersMoving(r) ==
  {m \in Modules : enabled[m] /\ motion[m] > 0 /\
     \/ r.kind = "module" /\ r.target = NoModule
     \/ r.kind = "module" /\ r.target \in Modules \ {m}
          /\ \E j \in Results[r.target] : owner[j] = m
     \/ r.kind = "joints"
          /\ \E j \in DOMAIN r.assign : owner[j] = m /\ r.assign[j] # m}
LosersNotOfNone(r) ==
  {m \in Modules : enabled[m] /\
     \/ r.kind = "module" /\ r.target \in Modules \ {m}
          /\ \E j \in Results[r.target] : owner[j] = m
     \/ r.kind = "joints"
          /\ \E j \in DOMAIN r.assign : owner[j] = m /\ r.assign[j] # m}
Losers(r) ==
  {m \in Modules : enabled[m] /\
     \/ r.kind = "module" /\ r.target = NoModule
     \/ r.kind = "module" /\ r.target \in Modules \ {m}
          /\ \E j \in Results[r.target] : owner[j] = m
     \/ r.kind = "joints"
          /\ \E j \in DOMAIN r.assign : owner[j] = m /\ r.assign[j] # m}

Collect ==
  /\ phase = "collect"
  /\ retire' = Losers(request) /\ todo' = Losers(request)
  /\ phase' = "stop"
  /\ UNCHANGED <<request, controlVars, timerVars, jointVars, moduleVars>>

StopModuleForgotten(m) ==   \* mutant: stop() is not called
  /\ phase = "stop" /\ m \in todo
  /\ todo' = todo \ {m}
  /\ UNCHANGED <<moduleVars, phase, request, retire, controlVars, timerVars, jointVars>>
StopModule(m) ==
  /\ phase = "stop" /\ m \in todo
  /\ stopping' = [stopping EXCEPT ![m] = TRUE]
  /\ \E n \in Contract(m)!AfterStop : motion' = [motion EXCEPT ![m] = n]
  /\ todo' = todo \ {m}
  /\ UNCHANGED <<enabled, settling, heard, resumed, phase, request, retire,
                 controlVars, timerVars, jointVars>>

\* while (isRunning()) usleep(...), one module after another.
SeenAtRest(m) ==
  /\ phase = "wait" /\ m \in todo
  /\ motion[m] = 0
  /\ todo' = todo \ {m} /\ resumed' = resumed \ {m}
  /\ UNCHANGED <<enabled, settling, motion, stopping, heard, phase, request, retire,
                 controlVars, timerVars, jointVars>>

\* setModuleEnable(false), without the mutex: the timer may be mid-pass.
DisableModuleUnbraked(m) ==   \* mutant: onModuleDisable() does not brake
  /\ phase = "disable" /\ m \in todo
  /\ enabled' = [enabled EXCEPT ![m] = FALSE]
  /\ settling' = [settling EXCEPT ![m] = "no"]
  /\ todo' = todo \ {m} /\ resumed' = resumed \ ({m} \cap Braking)
  /\ UNCHANGED <<motion, stopping, heard, phase, request, retire,
                 controlVars, timerVars, jointVars>>
DisableModule(m) ==
  /\ phase = "disable" /\ m \in todo
  /\ enabled' = [enabled EXCEPT ![m] = FALSE]
  /\ settling' = [settling EXCEPT ![m] = "no"]
  /\ \E n \in Contract(m)!AfterDisable : motion' = [motion EXCEPT ![m] = n]
  /\ todo' = todo \ {m} /\ resumed' = resumed \ ({m} \cap Braking)
  /\ UNCHANGED <<stopping, heard, phase, request, retire, controlVars, timerVars, jointVars>>

NextPhaseNoWait ==   \* mutant: disables at once
  /\ todo = {}
  /\ \/ phase = "stop" /\ phase' = "disable" /\ todo' = retire
     \/ phase = "disable" /\ phase' = "assign" /\ UNCHANGED todo
  /\ UNCHANGED <<request, retire, controlVars, timerVars, jointVars, moduleVars>>
NextPhase ==
  /\ todo = {}
  /\ \/ phase = "stop" /\ phase' = "wait" /\ todo' = retire
     \/ phase = "wait" /\ phase' = "disable" /\ todo' = retire
     \/ phase = "disable" /\ phase' = "assign" /\ UNCHANGED todo
  /\ UNCHANGED <<request, retire, controlVars, timerVars, jointVars, moduleVars>>

Grantable(o, j) == o = NoModule \/ (o \in Modules /\ j \in Results[o])

\* The joints the request gives an owner, and that owner; the others stay.
Moved(r) ==
  {j \in Joints : \/ r.kind = "module" /\ Grantable(r.target, j)
                  \/ r.kind = "joints" /\ j \in DOMAIN r.assign /\ Grantable(r.assign[j], j)}

NewOwner(r, j) == IF r.kind = "module" THEN r.target ELSE r.assign[j]

ListOf(o) == IF o = NoModule THEN "position" ELSE ControlMode[o]

\* addParam of the goal (an entry already there is kept), removeParam elsewhere.
EnlistOnly(j, c) ==   \* mutant: no removeParam
  [l \in Lists |-> IF l = c /\ list[j][c] = Absent THEN goal[j][c] ELSE list[j][l]]
Enlist(j, c) ==
  [l \in Lists |-> IF l # c THEN Absent
                   ELSE IF list[j][c] = Absent THEN goal[j][c] ELSE list[j][c]]

\* setCtrlModule enables every module that owns a joint, setJointCtrlModule
\* only those its message gave one.
EnablesMoved(r, j)  == j \in Moved(r)        \* mutant
EnablesByModule(r, j) == r.kind = "module"   \* mutant
Enables(r, j) == r.kind = "module" \/ j \in Moved(r)

\* setModuleEnable(true) does nothing to a module that is enabled.
Assign ==
  /\ phase = "assign" /\ MutexFree
  /\ owner' = [j \in Joints |->
        IF j \in Moved(request) THEN NewOwner(request, j) ELSE owner[j]]
  /\ list' = [j \in Joints |->
        IF j \in Moved(request) THEN Enlist(j, ListOf(NewOwner(request, j))) ELSE list[j]]
  /\ enabled' = [m \in Modules |->
        \/ enabled[m]
        \/ \E j \in Joints : owner'[j] = m /\ Enables(request, j)]
  /\ settling' = [m \in Modules |->
        IF enabled'[m] /\ ~enabled[m] THEN Contract(m)!AfterEnable ELSE settling[m]]
  /\ phase' = "idle" /\ retire' = {} /\ resumed' = {m \in resumed : ~enabled'[m]}
  /\ UNCHANGED <<goal, motion, stopping, heard, request, todo, controlVars, timerVars>>

Setter ==
  \/ Collect \/ NextPhase \/ Assign
  \/ \E m \in Modules : StopModule(m) \/ SeenAtRest(m) \/ DisableModule(m)

----------------------------------------------------------------------------
Commands == \E m \in Commanded : HearCommand(m) \/ Command(m)

Next == Timer \/ Queue \/ Setter \/ Commands

Spec == Init /\ [][Next]_vars

\* Clients that have no command under way to a module that is being retired: such
\* a command cancels the stop, and the handover waits for the new motion.
Considerate == heard \cap retire = {}

ConsiderateNext == Next /\ Considerate'

\* Each thread goes on as long as it can; nobody has to send anything. The
\* timer thread sleeps most of its cycle with the mutex free, so a thread that
\* keeps waiting for the mutex gets it.
Fairness ==
  /\ WF_vars(Timer) /\ WF_vars(Setter) /\ SF_vars(Assign)
  /\ WF_vars(Launch) /\ WF_vars(Answer)
  /\ \A m \in Commanded : WF_vars(Command(m))

ConsiderateSpec == Init /\ [][ConsiderateNext]_vars /\ Fairness

----------------------------------------------------------------------------
(* Properties.                                                             *)

\* Each variable ranges over the values the code can give it.
TypeOK ==
  /\ mode \in {"motion", "direct"}
  /\ timer \in {"sync", "gate", "locking", "modules"} /\ turn \subseteq Modules
  /\ goal \in [Joints -> [Lists -> Goals]]
  /\ list \in [Joints -> [Lists -> Goals \cup {Absent}]]
  /\ owner \in [Joints -> Owners]
  /\ enabled \in [Modules -> BOOLEAN]
  /\ settling \in [Modules -> {"no", "due", "now"}]
  /\ motion \in [Modules -> 0 .. StopTicks]
  /\ stopping \in [Modules -> BOOLEAN]
  /\ heard \subseteq Modules /\ resumed \subseteq Modules
  /\ callback \in {"ready", "join", "serve", "await"}
  /\ pending \in Requests \cup {NoRequest}
  /\ phase \in {"idle", "collect", "stop", "wait", "disable", "assign"}
  /\ request \in Requests \cup {NoRequest}
  /\ retire \subseteq Modules /\ todo \subseteq retire

\* A joint has an entry in the sync-write list of its owner's control mode and
\* in no other: no servo gets two kinds of command, or none, in one cycle.
ListPartition ==
  \A j \in Joints, l \in Lists : list[j][l] # Absent <=> l = ListOf(owner[j])

\* Whatever path an entry took (initialisation, addParam at a handover,
\* changeParam by a module or by a joint message), it holds the joint's goal:
\* what goes out on the bus is what goal_joint_states says.
ListCarriesGoal ==
  \A j \in Joints, l \in Lists : list[j][l] # Absent => list[j][l] = goal[j][l]

\* Each servo is sent its joint's goal, as its owner means it, and nothing else.
ListsInStep == ListPartition /\ ListCarriesGoal

\* A joint is taken from a module only after that module has been disabled,
\* whatever the other threads did since stop_modules was collected, and while it
\* is at rest, with one exception the code allows: a command that set it in motion
\* after the wait had seen it idle or, if disabling brakes the module, one that had
\* found it enabled before it was disabled and acted after that.
JointsTakenSafely ==
  [][\A j \in Joints : owner'[j] # owner[j] /\ owner[j] \in Modules
        => /\ ~enabled[owner[j]]
           /\ motion[owner[j]] = 0 \/ owner[j] \in resumed]_vars

\* With clients that leave a retiring module alone no module is cut off in the
\* middle of a motion: each joint is taken from a module at rest.
QuietHandover ==
  [][\A j \in Joints : owner'[j] # owner[j] /\ owner[j] \in Modules
        => motion[owner[j]] = 0]_vars

\* "set all used modules -> enable": after a whole-module request, or a joint
\* request that names every joint with a module able to drive it, no joint is
\* left with an owner that does not run, whatever earlier requests left behind.
UsedModulesEnabled ==
  phase = "idle" /\ (request.kind = "module" \/ Moved(request) = Joints)
    => \A j \in Joints : owner[j] \in Modules => enabled[owner[j]]

\* Only modules that own a joint run: a module that lost its last joint does
\* not keep computing, or keep isRunning() true, behind the new owner.
EnabledModulesUsed ==
  phase = "idle" => \A m \in Modules : enabled[m] => \E j \in Joints : owner[j] = m

\* Between requests the modules that run and the modules that own joints agree.
ModulesMatchOwners == UsedModulesEnabled /\ EnabledModulesUsed

\* A service answers when its own request is in force, not merely queued: each
\* joint it could move has the owner it asked for, and that owner is enabled.
ServiceDelivers ==
  callback = "await" /\ phase = "idle"
    => \A j \in Moved(pending) :
         /\ owner[j] = NewOwner(pending, j)
         /\ owner[j] \in Modules => enabled[owner[j]]

\* In motion mode a set-module callback returns: the wait for isRunning() ends,
\* and the queue thread takes messages again. (In direct mode it need not: no
\* module pass runs, and the mode can only be changed by the blocked thread.)
QueueReturns == (callback # "ready" /\ mode = "motion") ~> (callback = "ready")
=============================================================================
