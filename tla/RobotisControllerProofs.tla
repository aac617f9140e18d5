---------------------- MODULE RobotisControllerProofs ----------------------
(***************************************************************************)
(* Proofs, for every set of joints and modules, every result_ map, every   *)
(* assignment of control modes and every family of joint requests, of the  *)
(* safety properties of RobotisController.                                 *)
(***************************************************************************)
EXTENDS RobotisController, TLAPS

USE SetsAssumption, ResultsAssumption, ControlModeAssumption,
    StopTicksAssumption, JointRequestsAssumption

(***************************************************************************)
(* What a single changeParam or addParam leaves behind.                    *)
(***************************************************************************)

\* changeParam and addParam keep the shape of a joint's entries.
LEMMA EntriesTyped ==
  ASSUME list \in [Joints -> [Lists -> Goals \cup {Absent}]],
         goal \in [Joints -> [Lists -> Goals]],
         NEW j \in Joints, NEW c \in Lists
  PROVE  /\ Enlist(j, c) \in [Lists -> Goals \cup {Absent}]
         /\ \A v \in Goals : ChangeParam(j, c, v) \in [Lists -> Goals \cup {Absent}]
  BY DEF Enlist, ChangeParam

\* The list that serves an owner is one of the controller's lists.
LEMMA ListOfTyped ==
  ASSUME NEW o \in Owners
  PROVE  ListOf(o) \in Lists
  BY DEF ListOf, Lists, Owners

\* A request moves a joint to a module that can drive it, or to nobody.
LEMMA NewOwnerTyped ==
  ASSUME NEW r \in Requests, NEW j \in Moved(r)
  PROVE  NewOwner(r, j) \in Owners
  BY DEF Moved, Grantable, NewOwner, Owners, Requests, ModuleRequest, JointRequest, Malformed

\* Whatever happens to a module, its motion lasts StopTicks process() calls at most.
LEMMA MotionTyped ==
  ASSUME NEW m \in Modules, motion[m] \in 0 .. StopTicks
  PROVE  /\ Contract(m)!AfterProcess \subseteq 0 .. StopTicks
         /\ Contract(m)!AfterStop \subseteq 0 .. StopTicks
         /\ Contract(m)!AfterDisable \subseteq 0 .. StopTicks
  BY DEF Contract!AfterProcess, Contract!WithinProcess, Contract!AfterStop, Contract!AfterDisable

\* ... and the motion it may begin by itself is due, under way or neither.
LEMMA SettlingTyped ==
  ASSUME NEW m \in Modules
  PROVE  /\ Contract(m)!AfterEnable \in {"no", "due", "now"}
         /\ \A n : Contract(m)!Settled(n) \in {"no", "due", "now"}
  BY DEF Contract!AfterEnable, Contract!Settled

----------------------------------------------------------------------------
(* Type correctness. A request in service is one that can be launched.      *)

InService == phase # "idle" => request \in Requests
IType ==
  /\ TypeOK /\ InService
  /\ callback \in {"join", "serve"} => pending \in Requests
  /\ phase = "assign" => todo = {}

LEMMA TypeInit == Init => IType
  BY DEF Init, IType, TypeOK, InService, Owners, Lists

\* No step of the timer thread leaves the types.
LEMMA TypeTimer == IType /\ Timer => IType'
<1> SUFFICES ASSUME IType, Timer PROVE IType'
  OBVIOUS
<1> USE DEF IType, TypeOK, InService
<1>1. CASE Transmit
  BY <1>1 DEF Transmit, controlVars, jointVars, moduleVars, setterVars
<1>2. CASE ReadMode
  BY <1>2 DEF ReadMode, controlVars, jointVars, moduleVars, setterVars
<1>3. CASE LockForModules
  BY <1>3 DEF LockForModules, controlVars, jointVars, moduleVars, setterVars
<1>4. CASE UnlockModules
  BY <1>4 DEF UnlockModules, controlVars, jointVars, moduleVars, setterVars
<1>5. ASSUME NEW m \in Modules, SkipDisabled(m) PROVE IType'
  BY <1>5 DEF SkipDisabled, controlVars, jointVars, moduleVars, setterVars
<1>6. ASSUME NEW m \in Modules, RunModule(m) PROVE IType'
  <2>1. /\ motion' \in [Modules -> 0 .. StopTicks]
        /\ settling' \in [Modules -> {"no", "due", "now"}]
    BY <1>6, MotionTyped, SettlingTyped DEF RunModule
  <2>2. PICK result \in [Results[m] -> Goals] :
          /\ goal' = [j \in Joints |->
               IF j \in {i \in Results[m] : owner[i] = m}
               THEN [goal[j] EXCEPT ![ControlMode[m]] = result[j]] ELSE goal[j]]
          /\ list' = [j \in Joints |->
               IF j \in {i \in Results[m] : owner[i] = m}
               THEN ChangeParam(j, ControlMode[m], result[j]) ELSE list[j]]
    BY <1>6 DEF RunModule
  <2>3. ControlMode[m] \in Lists
    BY DEF Lists
  <2>4. goal' \in [Joints -> [Lists -> Goals]]
    BY <2>2, <2>3
  <2>5. list' \in [Joints -> [Lists -> Goals \cup {Absent}]]
    BY <2>2, <2>3, EntriesTyped
  <2> QED
    BY <1>6, <2>1, <2>4, <2>5 DEF RunModule, controlVars, setterVars
<1> QED
  BY <1>1, <1>2, <1>3, <1>4, <1>5, <1>6 DEF Timer

\* No callback leaves the types.
LEMMA TypeQueue == IType /\ Queue => IType'
<1> SUFFICES ASSUME IType, Queue PROVE IType'
  OBVIOUS
<1> USE DEF IType, TypeOK, InService
<1>1. ASSUME NEW c \in {"motion", "direct"}, SetControllerMode(c) PROVE IType'
  BY <1>1 DEF SetControllerMode, timerVars, jointVars, moduleVars, setterVars
<1>2. ASSUME NEW named \in SUBSET Joints, NEW position \in [named -> Goals],
             SetJointStates(position)
      PROVE IType'
  <2>1. "position" \in Lists
    BY DEF Lists
  <2>2. DOMAIN position = named /\ \A j \in named : position[j] \in Goals
    OBVIOUS
  <2>3. goal' \in [Joints -> [Lists -> Goals]]
    BY <1>2, <2>1, <2>2 DEF SetJointStates
  <2>4. list' \in [Joints -> [Lists -> Goals \cup {Absent}]]
    BY <1>2, <2>1, <2>2, EntriesTyped DEF SetJointStates
  <2> QED
    BY <1>2, <2>3, <2>4 DEF SetJointStates, controlVars, timerVars, moduleVars, setterVars
<1>3. ASSUME NEW r \in Requests, Receive(r) PROVE IType'
  BY <1>3 DEF Receive, timerVars, jointVars, moduleVars, setterVars
<1>4. CASE Launch
  BY <1>4 DEF Launch, timerVars, jointVars, moduleVars
<1>5. CASE Answer
  BY <1>5 DEF Answer, timerVars, jointVars, moduleVars, setterVars
<1> QED
  BY <1>1, <1>2, <1>3, <1>4, <1>5 DEF Queue

\* No step of the set-module thread leaves the types.
LEMMA TypeSetter == IType /\ Setter => IType'
<1> SUFFICES ASSUME IType, Setter PROVE IType'
  OBVIOUS
<1> USE DEF IType, TypeOK, InService
<1>1. CASE Collect
  BY <1>1 DEF Collect, Losers, controlVars, timerVars, jointVars, moduleVars
<1>2. CASE NextPhase
  BY <1>2 DEF NextPhase, controlVars, timerVars, jointVars, moduleVars
<1>3. CASE Assign
  <2>1. owner' \in [Joints -> Owners]
    BY <1>3, NewOwnerTyped DEF Assign
  <2>2. list' \in [Joints -> [Lists -> Goals \cup {Absent}]]
    BY <1>3, NewOwnerTyped, ListOfTyped, EntriesTyped DEF Assign
  <2>3. settling' \in [Modules -> {"no", "due", "now"}]
    BY <1>3, SettlingTyped DEF Assign
  <2> QED
    BY <1>3, <2>1, <2>2, <2>3 DEF Assign, controlVars, timerVars
<1>4. ASSUME NEW m \in Modules, StopModule(m) PROVE IType'
  BY <1>4, MotionTyped DEF StopModule, controlVars, timerVars, jointVars
<1>5. ASSUME NEW m \in Modules, SeenAtRest(m) PROVE IType'
  BY <1>5 DEF SeenAtRest, controlVars, timerVars, jointVars, moduleVars
<1>6. ASSUME NEW m \in Modules, DisableModule(m) PROVE IType'
  BY <1>6, MotionTyped DEF DisableModule, controlVars, timerVars, jointVars
<1> QED
  BY <1>1, <1>2, <1>3, <1>4, <1>5, <1>6 DEF Setter

\* Commands leave the types too.
LEMMA TypeNext == IType /\ [Next]_vars => IType'
<1>1. ASSUME IType, NEW m \in Modules, HearCommand(m) PROVE IType'
  BY <1>1 DEF IType, TypeOK, InService, HearCommand, controlVars, timerVars, jointVars,
              setterVars
<1>3. ASSUME IType, NEW m \in Modules, Command(m) PROVE IType'
  <2>1. /\ motion' \in [Modules -> 0 .. StopTicks]
        /\ settling' \in [Modules -> {"no", "due", "now"}]
        /\ stopping' \in [Modules -> BOOLEAN]
        /\ heard' \subseteq Modules /\ resumed' \subseteq Modules
    BY <1>3 DEF IType, TypeOK, Command
  <2> QED
    BY <1>3, <2>1 DEF IType, TypeOK, InService, Command, controlVars, timerVars, jointVars,
                      setterVars
<1>2. ASSUME IType, UNCHANGED vars PROVE IType'
  BY <1>2 DEF IType, TypeOK, InService, vars, controlVars, timerVars, jointVars,
              moduleVars, setterVars
<1> QED
  BY <1>1, <1>2, <1>3, TypeTimer, TypeQueue, TypeSetter DEF Next, Commands

\* Every variable keeps its type: TypeOK of every state the controller reaches.
THEOREM TypeCorrect == Spec => []TypeOK
<1>1. IType => TypeOK
  BY DEF IType
<1> QED
  BY <1>1, TypeInit, TypeNext, PTL DEF Spec

\* The strengthened type invariant, for the proofs below.
LEMMA ITypeCorrect == Spec => []IType
  BY TypeInit, TypeNext, PTL DEF Spec

----------------------------------------------------------------------------
(* The sync-write lists.                                                   *)

ListInv == ListPartition /\ ListCarriesGoal

\* Initially every joint is in the position list with its goal.
LEMMA ListInit == Init => ListInv
  BY DEF Init, ListInv, ListPartition, ListCarriesGoal, ListOf, Lists

\* changeParam together with the goal it carries keeps both properties of one
\* joint; it never adds an entry.
LEMMA ChangeParamKeeps ==
  ASSUME list \in [Joints -> [Lists -> Goals \cup {Absent}]],
         goal \in [Joints -> [Lists -> Goals]],
         NEW j \in Joints, NEW c \in Lists, NEW v \in Goals,
         \A l \in Lists : list[j][l] # Absent => list[j][l] = goal[j][l]
  PROVE  \A l \in Lists :
           /\ ChangeParam(j, c, v)[l] # Absent <=> list[j][l] # Absent
           /\ ChangeParam(j, c, v)[l] # Absent
                => ChangeParam(j, c, v)[l] = [goal[j] EXCEPT ![c] = v][l]
  BY DEF ChangeParam

\* A pass of a module writes list and goal together.
LEMMA ListRunModule ==
  ASSUME IType, ListInv, NEW m \in Modules, RunModule(m)
  PROVE  ListInv'
<1>1. PICK result \in [Results[m] -> Goals] :
        /\ goal' = [j \in Joints |->
             IF j \in {i \in Results[m] : owner[i] = m}
             THEN [goal[j] EXCEPT ![ControlMode[m]] = result[j]] ELSE goal[j]]
        /\ list' = [j \in Joints |->
             IF j \in {i \in Results[m] : owner[i] = m}
             THEN ChangeParam(j, ControlMode[m], result[j]) ELSE list[j]]
  BY DEF RunModule
<1>2. ControlMode[m] \in Lists
  BY DEF Lists
<1>3. owner' = owner
  BY DEF RunModule
<1>4. ASSUME NEW j \in Joints, NEW l \in Lists
      PROVE  /\ list'[j][l] # Absent <=> list[j][l] # Absent
             /\ list'[j][l] # Absent => list'[j][l] = goal'[j][l]
  <2>1. CASE j \in {i \in Results[m] : owner[i] = m}
    <3>1. result[j] \in Goals
      BY <2>1
    <3>2. /\ goal'[j] = [goal[j] EXCEPT ![ControlMode[m]] = result[j]]
          /\ list'[j] = ChangeParam(j, ControlMode[m], result[j])
      BY <1>1, <2>1
    <3>3. \A i \in Lists : list[j][i] # Absent => list[j][i] = goal[j][i]
      BY DEF ListInv, ListCarriesGoal
    <3>4. /\ list \in [Joints -> [Lists -> Goals \cup {Absent}]]
          /\ goal \in [Joints -> [Lists -> Goals]]
      BY DEF IType, TypeOK
    <3>5. /\ ChangeParam(j, ControlMode[m], result[j])[l] # Absent <=> list[j][l] # Absent
          /\ ChangeParam(j, ControlMode[m], result[j])[l] # Absent
               => ChangeParam(j, ControlMode[m], result[j])[l]
                    = [goal[j] EXCEPT ![ControlMode[m]] = result[j]][l]
      BY <1>2, <3>1, <3>3, <3>4, ChangeParamKeeps
    <3> QED
      BY <3>2, <3>5
  <2>2. CASE j \notin {i \in Results[m] : owner[i] = m}
    BY <1>1, <2>2 DEF ListInv, ListCarriesGoal
  <2> QED
    BY <2>1, <2>2
<1> QED
  BY <1>3, <1>4 DEF ListInv, ListPartition, ListCarriesGoal, ListOf

\* So does a joint message, for the joints it is taken for.
LEMMA ListSetJointStates ==
  ASSUME IType, ListInv, NEW named \in SUBSET Joints,
         NEW position \in [named -> Goals], SetJointStates(position)
  PROVE  ListInv'
<1> DEFINE taken == {j \in DOMAIN position : mode = "direct" \/ owner[j] = NoModule}
<1>1. /\ goal' = [j \in Joints |->
             IF j \in taken THEN [goal[j] EXCEPT !["position"] = position[j]] ELSE goal[j]]
      /\ list' = [j \in Joints |->
             IF j \in taken THEN ChangeParam(j, "position", position[j]) ELSE list[j]]
      /\ owner' = owner
  BY DEF SetJointStates
<1>2. "position" \in Lists /\ \A j \in taken : position[j] \in Goals
  BY DEF Lists
<1> HIDE DEF taken
<1>3. ASSUME NEW j \in Joints, NEW l \in Lists
      PROVE  /\ list'[j][l] # Absent <=> list[j][l] # Absent
             /\ list'[j][l] # Absent => list'[j][l] = goal'[j][l]
  <2>1. CASE j \in taken
    <3>1. /\ goal'[j] = [goal[j] EXCEPT !["position"] = position[j]]
          /\ list'[j] = ChangeParam(j, "position", position[j])
      BY <1>1, <2>1
    <3>2. \A i \in Lists : list[j][i] # Absent => list[j][i] = goal[j][i]
      BY DEF ListInv, ListCarriesGoal
    <3> QED
      BY <1>2, <2>1, <3>1, <3>2, ChangeParamKeeps DEF IType, TypeOK
  <2>2. CASE j \notin taken
    BY <1>1, <2>2 DEF ListInv, ListCarriesGoal
  <2> QED
    BY <2>1, <2>2
<1> QED
  BY <1>1, <1>3 DEF ListInv, ListPartition, ListCarriesGoal, ListOf

\* A handover moves each joint it touches to the list of its new owner.
LEMMA ListAssign ==
  ASSUME IType, ListInv, Assign
  PROVE  ListInv'
<1>1. request \in Requests
  BY DEF IType, InService, Assign
<1>2. /\ owner' = [j \in Joints |->
             IF j \in Moved(request) THEN NewOwner(request, j) ELSE owner[j]]
      /\ list' = [j \in Joints |->
             IF j \in Moved(request) THEN Enlist(j, ListOf(NewOwner(request, j))) ELSE list[j]]
      /\ goal' = goal
  BY DEF Assign
<1>3. ASSUME NEW j \in Joints, NEW l \in Lists
      PROVE  /\ list'[j][l] # Absent <=> l = ListOf(owner'[j])
             /\ list'[j][l] # Absent => list'[j][l] = goal'[j][l]
  <2>1. CASE j \in Moved(request)
    <3>1. ListOf(NewOwner(request, j)) \in Lists
      BY <1>1, <2>1, NewOwnerTyped, ListOfTyped
    <3>2. goal[j][l] # Absent
      BY DEF IType, TypeOK
    <3> QED
      BY <1>2, <2>1, <3>1, <3>2 DEF Enlist, ListInv, ListCarriesGoal
  <2>2. CASE j \notin Moved(request)
    BY <1>2, <2>2 DEF ListInv, ListPartition, ListCarriesGoal
  <2> QED
    BY <2>1, <2>2
<1> QED
  BY <1>3 DEF ListInv, ListPartition, ListCarriesGoal, ListOf

\* Every other step leaves lists, goals and owners alone.
LEMMA ListNext == IType /\ ListInv /\ [Next]_vars => ListInv'
<1> SUFFICES ASSUME IType, ListInv, [Next]_vars PROVE ListInv'
  OBVIOUS
<1>1. ASSUME UNCHANGED jointVars PROVE ListInv'
  BY <1>1 DEF jointVars, ListInv, ListPartition, ListCarriesGoal, ListOf
<1>2. CASE Timer
  <2>1. ASSUME ~\E m \in Modules : RunModule(m) PROVE UNCHANGED jointVars
    BY <1>2, <2>1 DEF Timer, Transmit, ReadMode, LockForModules, UnlockModules, SkipDisabled
  <2> QED
    BY <1>1, <2>1, ListRunModule
<1>3. CASE Queue
  <2>1. CASE \E named \in SUBSET Joints : \E position \in [named -> Goals] :
               SetJointStates(position)
    BY <2>1, ListSetJointStates
  <2>2. CASE (\E c \in {"motion", "direct"} : SetControllerMode(c))
               \/ (\E r \in Requests : Receive(r)) \/ Launch \/ Answer
    BY <1>1, <2>2 DEF SetControllerMode, Receive, Launch, Answer
  <2> QED
    BY <1>3, <2>1, <2>2 DEF Queue
<1>4. CASE Setter
  <2>1. CASE Assign
    BY <2>1, ListAssign
  <2>2. CASE Collect \/ NextPhase
               \/ \E m \in Modules : StopModule(m) \/ SeenAtRest(m) \/ DisableModule(m)
    BY <1>1, <2>2 DEF Collect, NextPhase, StopModule, SeenAtRest, DisableModule
  <2> QED
    BY <1>4, <2>1, <2>2 DEF Setter
<1>5. CASE Commands
  BY <1>1, <1>5 DEF Commands, HearCommand, Command
<1>6. CASE UNCHANGED vars
  BY <1>1, <1>6 DEF vars
<1> QED
  BY <1>2, <1>3, <1>4, <1>5, <1>6 DEF Next

\* ListsInStep: whatever the interleaving of module passes, joint messages and
\* handovers, each joint is commanded through its owner's control mode alone, and
\* no entry of a sync-write list is ever out of date.
THEOREM ListsCurrent == Spec => []ListsInStep
<1>1. ListInv => ListsInStep
  BY DEF ListInv, ListsInStep
<1> QED
  BY <1>1, ListInit, ListNext, ITypeCorrect, PTL DEF Spec

----------------------------------------------------------------------------
(* The handover.                                                           *)

\* What the set-module thread knows about the modules that lose a joint: they
\* are on its list while it stops them, and disabled when it assigns.
RetireInv ==
  /\ phase \in {"stop", "wait"} => Losers(request) \subseteq retire
  /\ phase = "disable" => Losers(request) \subseteq todo
  /\ phase = "assign" => Losers(request) = {}

\* Nobody is being retired at the start.
LEMMA RetireInit == Init => RetireInv
  BY DEF Init, RetireInv

\* Until Assign nobody but this thread changes an owner or an enable flag, so
\* the modules collected are still the ones to disable.
LEMMA RetireNext == IType /\ RetireInv /\ [Next]_vars => RetireInv'
<1> SUFFICES ASSUME IType, RetireInv, [Next]_vars PROVE RetireInv'
  OBVIOUS
<1>1. ASSUME UNCHANGED <<owner, enabled>>, UNCHANGED setterVars PROVE RetireInv'
  BY <1>1 DEF RetireInv, Losers, setterVars
<1>2. CASE Timer
  BY <1>1, <1>2 DEF Timer, Transmit, ReadMode, LockForModules, UnlockModules, SkipDisabled,
                    RunModule, jointVars, moduleVars
<1>3. CASE Queue
  <2>1. CASE Launch
    BY <2>1 DEF Launch, RetireInv, Losers, jointVars, moduleVars
  <2>2. CASE ~Launch
    BY <1>1, <1>3, <2>2 DEF Queue, SetControllerMode, SetJointStates, Receive, Answer,
                            jointVars, moduleVars
  <2> QED
    BY <2>1, <2>2
<1>4. CASE Setter
  <2>1. CASE Collect
    BY <2>1 DEF Collect, RetireInv, Losers, jointVars, moduleVars
  <2>2. CASE NextPhase
    BY <2>2 DEF NextPhase, RetireInv, Losers, jointVars, moduleVars
  <2>3. CASE Assign
    BY <2>3 DEF Assign, RetireInv
  <2>4. ASSUME NEW m \in Modules, StopModule(m) PROVE RetireInv'
    BY <2>4 DEF StopModule, RetireInv, Losers, jointVars
  <2>5. ASSUME NEW m \in Modules, SeenAtRest(m) PROVE RetireInv'
    BY <2>5 DEF SeenAtRest, RetireInv, Losers, jointVars, moduleVars
  <2>6. ASSUME NEW m \in Modules, DisableModule(m) PROVE RetireInv'
    <3>1. Losers(request)' \subseteq Losers(request) \ {m}
      BY <2>6 DEF DisableModule, Losers, jointVars, IType, TypeOK
    <3> QED
      BY <2>6, <3>1 DEF DisableModule, RetireInv
  <2> QED
    BY <1>4, <2>1, <2>2, <2>3, <2>4, <2>5, <2>6 DEF Setter
<1>5. CASE Commands
  BY <1>1, <1>5 DEF Commands, HearCommand, Command, jointVars
<1>6. CASE UNCHANGED vars
  BY <1>1, <1>6 DEF vars, jointVars, moduleVars
<1> QED
  BY <1>2, <1>3, <1>4, <1>5, <1>6 DEF Next

\* Only Assign changes an owner.
LEMMA OwnerChange ==
  ASSUME [Next]_vars, ~Assign
  PROVE  owner' = owner
  BY DEF Next, vars, jointVars, Timer, Transmit, ReadMode, LockForModules, UnlockModules,
         SkipDisabled, RunModule, Queue, SetControllerMode, SetJointStates, Receive, Launch,
         Answer, Setter, Collect, NextPhase, StopModule, SeenAtRest, DisableModule,
         Commands, HearCommand, Command

\* A module that Assign takes a joint from is one of the request's losers.
LEMMA TakenFromLoser ==
  ASSUME IType, Assign, NEW j \in Joints, owner'[j] # owner[j],
         owner[j] \in Modules, enabled[owner[j]]
  PROVE  owner[j] \in Losers(request)
<1>1. j \in Moved(request) /\ NewOwner(request, j) # owner[j]
  BY DEF Assign
<1>2. CASE request.kind = "module"
  BY <1>1, <1>2 DEF Moved, NewOwner, Grantable, Losers
<1>3. CASE request.kind # "module"
  BY <1>1, <1>3 DEF Moved, NewOwner, Grantable, Losers
<1> QED
  BY <1>2, <1>3

\* No step takes a joint from a module that is enabled.
LEMMA TakenDisabled ==
  ASSUME IType, RetireInv, [Next]_vars,
         NEW j \in Joints, owner'[j] # owner[j], owner[j] \in Modules
  PROVE  ~enabled[owner[j]]
<1>1. Assign
  BY OwnerChange
<1>2. enabled[owner[j]] => owner[j] \in Losers(request)
  BY <1>1, TakenFromLoser
<1> QED
  BY <1>1, <1>2 DEF RetireInv, Assign

----------------------------------------------------------------------------
(* What is in force when the set-module thread has ended.                  *)

\* The queue thread waits for the request it launched; between requests the
\* last one has its effect.
IdleInv ==
  /\ callback = "await" => request = pending
  /\ UsedModulesEnabled
  /\ ServiceDelivers

\* No request has been made at the start.
LEMMA IdleInit == Init => IdleInv
  BY DEF Init, IdleInv, UsedModulesEnabled, ServiceDelivers, NoRequest

\* A thread that ends has just assigned: its request is in force.
LEMMA IdleAssign ==
  ASSUME IType, IdleInv, Assign
  PROVE  IdleInv'
<1>1. request \in Requests
  BY DEF IType, InService, Assign
<1>2. /\ owner' = [j \in Joints |->
             IF j \in Moved(request) THEN NewOwner(request, j) ELSE owner[j]]
      /\ enabled' = [m \in Modules |->
             \/ enabled[m]
             \/ \E j \in Joints : owner'[j] = m /\ Enables(request, j)]
      /\ UNCHANGED <<request, callback, pending>>
  BY DEF Assign, controlVars
<1>3. owner' \in [Joints -> Owners]
  BY <1>1, <1>2, NewOwnerTyped DEF IType, TypeOK
<1>4. ASSUME NEW j \in Joints, owner'[j] \in Modules, Enables(request, j)
      PROVE  enabled'[owner'[j]]
  BY <1>2, <1>4
<1>5. UsedModulesEnabled'
  BY <1>2, <1>4 DEF UsedModulesEnabled, Enables, Moved, Grantable
<1>6. ASSUME callback = "await" PROVE ServiceDelivers'
  <2>1. pending = request /\ Moved(pending)' = Moved(request)
    BY <1>2, <1>6 DEF IdleInv, Moved, Grantable
  <2>2. ASSUME NEW j \in Moved(request)
        PROVE  owner'[j] = NewOwner(request, j) /\ j \in Joints /\ Enables(request, j)
    BY <1>2, <2>2 DEF Moved, Enables
  <2> QED
    BY <1>2, <1>4, <2>1, <2>2 DEF ServiceDelivers, NewOwner
<1> QED
  BY <1>2, <1>5, <1>6 DEF IdleInv, ServiceDelivers

\* Between requests nothing changes an owner or an enable flag.
LEMMA IdleNext == IType /\ IdleInv /\ [Next]_vars => IdleInv'
<1> SUFFICES ASSUME IType, IdleInv, [Next]_vars PROVE IdleInv'
  OBVIOUS
<1>1. ASSUME UNCHANGED <<owner, enabled>>, UNCHANGED <<callback, pending>>,
             UNCHANGED setterVars
      PROVE  IdleInv'
  BY <1>1 DEF IdleInv, UsedModulesEnabled, ServiceDelivers, Moved, Grantable, NewOwner,
              setterVars
<1>2. CASE Timer
  BY <1>1, <1>2 DEF Timer, Transmit, ReadMode, LockForModules, UnlockModules, SkipDisabled,
                    RunModule, controlVars, jointVars, moduleVars
<1>3. CASE Queue
  <2>1. ASSUME NEW r \in Requests, Receive(r) PROVE IdleInv'
    BY <2>1 DEF Receive, IdleInv, UsedModulesEnabled, ServiceDelivers, Moved, Grantable,
                jointVars, moduleVars, setterVars
  <2>2. CASE Launch
    BY <2>2 DEF Launch, IdleInv, UsedModulesEnabled, ServiceDelivers, Moved, Grantable,
                jointVars, moduleVars
  <2>3. CASE Answer
    BY <2>3 DEF Answer, IdleInv, UsedModulesEnabled, ServiceDelivers, Moved, Grantable,
                jointVars, moduleVars, setterVars
  <2>4. ASSUME NEW c \in {"motion", "direct"}, SetControllerMode(c) PROVE IdleInv'
    BY <1>1, <2>4 DEF SetControllerMode, jointVars, moduleVars
  <2>5. ASSUME NEW named \in SUBSET Joints, NEW position \in [named -> Goals],
               SetJointStates(position)
        PROVE  IdleInv'
    BY <1>1, <2>5 DEF SetJointStates, controlVars, moduleVars
  <2> QED
    BY <1>3, <2>1, <2>2, <2>3, <2>4, <2>5 DEF Queue
<1>4. CASE Setter
  <2>1. CASE Assign
    BY <2>1, IdleAssign
  <2>2. CASE ~Assign
    <3>1. phase' # "idle" /\ UNCHANGED <<callback, pending, request>>
      BY <1>4, <2>2 DEF Setter, Collect, NextPhase, StopModule, SeenAtRest, DisableModule,
                        controlVars
    <3> QED
      BY <3>1 DEF IdleInv, UsedModulesEnabled, ServiceDelivers
  <2> QED
    BY <2>1, <2>2
<1>5. CASE Commands
  BY <1>1, <1>5 DEF Commands, HearCommand, Command, controlVars, jointVars
<1>6. CASE UNCHANGED vars
  BY <1>1, <1>6 DEF vars, controlVars, jointVars, moduleVars
<1> QED
  BY <1>2, <1>3, <1>4, <1>5, <1>6 DEF Next

\* EnabledModulesUsed holds in every phase: what is enabled loses no joint, and what
\* Assign enables has been given one.
UsedInv == \A m \in Modules : enabled[m] => \E j \in Joints : owner[j] = m

LEMMA UsedInit == Init => UsedInv
  BY DEF Init, UsedInv

LEMMA UsedNext == IType /\ RetireInv /\ UsedInv /\ [Next]_vars => UsedInv'
<1> SUFFICES ASSUME IType, RetireInv, UsedInv, [Next]_vars,
                    NEW m \in Modules, enabled'[m]
             PROVE  \E j \in Joints : owner'[j] = m
  BY DEF UsedInv
<1>1. CASE Assign /\ ~enabled[m]
  BY <1>1 DEF Assign
<1>2. CASE enabled[m]
  <2>1. PICK j \in Joints : owner[j] = m
    BY <1>2 DEF UsedInv
  <2> QED
    BY <1>2, <2>1, TakenDisabled
<1>3. CASE ~Assign /\ ~enabled[m]
  <2>1. enabled' = enabled \/ \E k \in Modules : DisableModule(k)
    BY <1>3 DEF Next, vars, moduleVars, Timer, Transmit, ReadMode, LockForModules,
       UnlockModules, SkipDisabled, RunModule, Queue, SetControllerMode, SetJointStates,
       Receive, Launch, Answer, Setter, Collect, NextPhase, StopModule, SeenAtRest, Commands,
       HearCommand, Command
  <2> QED
    BY <1>3, <2>1 DEF DisableModule, IType, TypeOK
<1> QED
  BY <1>1, <1>2, <1>3

\* ModulesMatchOwners: after any whole-module request no joint has an owner that
\* does not run, and only owners run.
THEOREM NoOrphans == Spec => []ModulesMatchOwners
<1>1. IdleInv /\ UsedInv => ModulesMatchOwners
  BY DEF IdleInv, UsedInv, ModulesMatchOwners, EnabledModulesUsed
<1> QED
  BY <1>1, IdleInit, IdleNext, UsedInit, UsedNext, RetireInit, RetireNext, ITypeCorrect,
     PTL DEF Spec

\* ServiceDelivers: a service that answers has done what it was asked.
THEOREM ServiceInForce == Spec => []ServiceDelivers
<1>1. IdleInv => ServiceDelivers
  BY DEF IdleInv
<1> QED
  BY <1>1, IdleInit, IdleNext, ITypeCorrect, PTL DEF Spec

----------------------------------------------------------------------------
(* Modules at rest when a joint is taken from them.                        *)

\* What the wait has seen at rest moves again only to settle, which disabling ends, or
\* because a command resumed it.
Quiet(m) == motion[m] = 0 \/ settling[m] = "now" \/ m \in resumed

\* Whoever is disabled is at rest or was resumed: a property of all modules, those that
\* do not brake included.
RestInv ==
  /\ \A m \in Modules : ~enabled[m] => motion[m] = 0 \/ m \in resumed
  /\ phase = "wait" => \A m \in retire \ todo : Quiet(m)
  /\ phase \in {"disable", "assign"} => \A m \in retire : Quiet(m)

\* No module moves at the start.
LEMMA RestInit == Init => RestInv
  BY DEF Init, RestInv

\* A pass sets a module in motion only to settle, and only an enabled one.
LEMMA RestRunModule ==
  ASSUME IType, RestInv, NEW m \in Modules, RunModule(m)
  PROVE  RestInv'
<1>1. \A k \in Modules \ {m} : motion'[k] = motion[k] /\ settling'[k] = settling[k]
  BY DEF RunModule, IType, TypeOK
<1>2. enabled[m] /\ UNCHANGED <<enabled, resumed>> /\ UNCHANGED setterVars
  BY DEF RunModule
<1>3. Quiet(m) => Quiet(m)'
  BY DEF RunModule, Quiet, IType, TypeOK, Contract!AfterProcess,
         Contract!WithinProcess, Contract!Settled
<1>4. \A k \in Modules : Quiet(k) => Quiet(k)'
  BY <1>1, <1>2, <1>3 DEF Quiet
<1> QED
  BY <1>1, <1>2, <1>4 DEF RestInv, IType, TypeOK, setterVars

\* Disabling ends the motion of a module that brakes or settles; another that moves was
\* resumed.
LEMMA RestDisable ==
  ASSUME IType, RestInv, NEW m \in Modules, DisableModule(m)
  PROVE  RestInv'
<1>1. Quiet(m)
  BY DEF DisableModule, RestInv, IType, TypeOK
<1>2. motion'[m] = 0 \/ m \in resumed'
  <2>1. CASE m \in Braking \/ settling[m] = "now" \/ motion[m] = 0
    BY <2>1 DEF DisableModule, IType, TypeOK, Contract!AfterDisable
  <2>2. CASE ~(m \in Braking \/ settling[m] = "now" \/ motion[m] = 0)
    BY <1>1, <2>2 DEF DisableModule, Quiet
  <2> QED
    BY <2>1, <2>2
<1>3. \A k \in Modules \ {m} : /\ motion'[k] = motion[k] /\ settling'[k] = settling[k]
                               /\ enabled'[k] = enabled[k]
                               /\ k \in resumed' <=> k \in resumed
  BY DEF DisableModule, IType, TypeOK
<1>4. \A k \in Modules : Quiet(k) => Quiet(k)'
  BY <1>2, <1>3 DEF Quiet
<1> QED
  BY <1>2, <1>3, <1>4 DEF DisableModule, RestInv, IType, TypeOK

\* A command that reaches a retired or disabled module resumes it.
LEMMA RestCommand ==
  ASSUME IType, RestInv, NEW m \in Modules, Command(m)
  PROVE  RestInv'
<1>1. resumed \subseteq resumed' /\ UNCHANGED enabled /\ UNCHANGED setterVars
  BY DEF Command
<1>2. m \in retire \/ ~enabled[m] => m \in resumed'
  BY DEF Command
<1>3. \A k \in Modules \ {m} : motion'[k] = motion[k] /\ settling'[k] = settling[k]
  BY DEF Command, IType, TypeOK
<1>4. \A k \in Modules : Quiet(k) /\ (k = m => m \in retire) => Quiet(k)'
  BY <1>1, <1>2, <1>3 DEF Quiet
<1>5. \A k \in Modules : ~enabled'[k] => motion'[k] = 0 \/ k \in resumed'
  BY <1>1, <1>2, <1>3 DEF RestInv
<1> QED
  BY <1>1, <1>4, <1>5 DEF RestInv, IType, TypeOK, setterVars

\* Of the other steps none sets a module in motion, and a module is seen at rest only if
\* it is.
LEMMA RestNext == IType /\ RestInv /\ [Next]_vars => RestInv'
<1> SUFFICES ASSUME IType, RestInv, [Next]_vars PROVE RestInv'
  OBVIOUS
<1>1. ASSUME UNCHANGED <<enabled, settling, motion, resumed>>, UNCHANGED setterVars
      PROVE  RestInv'
  BY <1>1 DEF RestInv, Quiet, setterVars
<1>2. CASE Timer
  <2>1. ASSUME ~\E m \in Modules : RunModule(m)
        PROVE  UNCHANGED moduleVars /\ UNCHANGED setterVars
    BY <1>2, <2>1 DEF Timer, Transmit, ReadMode, LockForModules, UnlockModules, SkipDisabled
  <2> QED
    BY <1>1, <2>1, RestRunModule DEF moduleVars
<1>3. CASE Queue
  <2>1. CASE Launch
    BY <2>1 DEF Launch, RestInv, Quiet, moduleVars
  <2>2. CASE ~Launch
    BY <1>1, <1>3, <2>2 DEF Queue, SetControllerMode, SetJointStates, Receive, Answer,
                            moduleVars
  <2> QED
    BY <2>1, <2>2
<1>4. CASE Setter
  <2>1. CASE Collect
    BY <2>1 DEF Collect, RestInv, Quiet, moduleVars
  <2>2. CASE NextPhase
    BY <2>2 DEF NextPhase, RestInv, Quiet, moduleVars, IType, TypeOK
  <2>3. CASE Assign
    BY <2>3 DEF Assign, RestInv
  <2>4. ASSUME NEW m \in Modules, StopModule(m) PROVE RestInv'
    BY <2>4 DEF StopModule, RestInv, Quiet, IType, TypeOK, Contract!AfterStop
  <2>5. ASSUME NEW m \in Modules, SeenAtRest(m) PROVE RestInv'
    BY <2>5 DEF SeenAtRest, RestInv, Quiet, IType, TypeOK
  <2>6. ASSUME NEW m \in Modules, DisableModule(m) PROVE RestInv'
    BY <2>6, RestDisable
  <2> QED
    BY <1>4, <2>1, <2>2, <2>3, <2>4, <2>5, <2>6 DEF Setter
<1>5. CASE Commands
  <2>1. ASSUME NEW m \in Modules, HearCommand(m) PROVE RestInv'
    BY <1>1, <2>1 DEF HearCommand
  <2> QED
    BY <1>5, <2>1, RestCommand DEF Commands
<1>6. CASE UNCHANGED vars
  BY <1>1, <1>6 DEF vars, moduleVars
<1> QED
  BY <1>2, <1>3, <1>4, <1>5, <1>6 DEF Next

\* JointsTakenSafely: no joint is ever taken from a module that is enabled, nor from one
\* in motion unless a command resumed it after the wait or, for one that brakes, acted
\* after the disable on a check made before.
THEOREM HandoverSafe == Spec => JointsTakenSafely
<1>1. IType /\ RetireInv /\ RestInv /\ [Next]_vars
        => [\A j \in Joints : owner'[j] # owner[j] /\ owner[j] \in Modules
              => /\ ~enabled[owner[j]]
                 /\ motion[owner[j]] = 0 \/ owner[j] \in resumed]_vars
  <2> SUFFICES ASSUME IType, RetireInv, RestInv, [Next]_vars,
                      NEW j \in Joints, owner'[j] # owner[j], owner[j] \in Modules
               PROVE  ~enabled[owner[j]] /\ (motion[owner[j]] = 0 \/ owner[j] \in resumed)
    OBVIOUS
  <2>1. ~enabled[owner[j]]
    BY TakenDisabled
  <2> QED
    BY <2>1 DEF RestInv
<1> QED
  BY <1>1, RetireInit, RetireNext, RestInit, RestNext, ITypeCorrect, PTL
     DEF Spec, JointsTakenSafely
----------------------------------------------------------------------------
(* Clients that have no command under way to a module that is retired.      *)

\* What such commands leave alone: nothing is resumed, since whoever hears a command is
\* enabled and stays so until it has acted.
QuietInv == Considerate /\ resumed = {} /\ \A m \in heard : enabled[m]

\* A considerate step is a step: the invariants of Spec are those of ConsiderateSpec.
LEMMA ConsiderateIsNext == [ConsiderateNext]_vars => [Next]_vars
  BY DEF ConsiderateNext

\* Nobody has been sent a command at the start.
LEMMA QuietInit == Init => QuietInv
  BY DEF Init, QuietInv, Considerate

\* A command acts on a module that is neither retired nor disabled.
LEMMA QuietNext == IType /\ QuietInv /\ [ConsiderateNext]_vars => QuietInv'
<1> SUFFICES ASSUME IType, QuietInv, [ConsiderateNext]_vars PROVE QuietInv'
  OBVIOUS
<1>1. Considerate'
  BY DEF ConsiderateNext, QuietInv, Considerate, vars, moduleVars, setterVars
<1>2. ASSUME resumed' = resumed, heard' = heard, \A m \in heard : enabled[m] => enabled'[m]
      PROVE  QuietInv'
  BY <1>1, <1>2 DEF QuietInv
<1>3. CASE Timer
  BY <1>2, <1>3 DEF Timer, Transmit, ReadMode, LockForModules, UnlockModules, SkipDisabled,
                    RunModule, moduleVars
<1>4. CASE Queue
  BY <1>2, <1>4 DEF Queue, SetControllerMode, SetJointStates, Receive, Launch, Answer,
                    moduleVars
<1>5. CASE Setter
  <2>1. ASSUME NEW m \in Modules, DisableModule(m) PROVE QuietInv'
    <3>1. m \notin heard
      BY <2>1 DEF DisableModule, QuietInv, Considerate, IType, TypeOK
    <3> QED
      BY <1>1, <2>1, <3>1 DEF DisableModule, QuietInv, IType, TypeOK
  <2>2. ASSUME NEW m \in Modules, SeenAtRest(m) PROVE QuietInv'
    BY <1>1, <2>2 DEF SeenAtRest, QuietInv
  <2>3. CASE Assign
    BY <1>1, <2>3 DEF Assign, QuietInv, IType, TypeOK
  <2>4. CASE Collect \/ NextPhase \/ \E m \in Modules : StopModule(m)
    BY <1>2, <2>4 DEF Collect, NextPhase, StopModule, moduleVars
  <2> QED
    BY <1>5, <2>1, <2>2, <2>3, <2>4 DEF Setter
<1>6. CASE Commands
  <2>1. ASSUME NEW m \in Modules, HearCommand(m) PROVE QuietInv'
    BY <1>1, <2>1 DEF HearCommand, QuietInv
  <2>2. ASSUME NEW m \in Modules, Command(m) PROVE QuietInv'
    <3>1. m \notin retire /\ enabled[m]
      BY <2>2 DEF Command, QuietInv, Considerate
    <3> QED
      BY <1>1, <2>2, <3>1 DEF Command, QuietInv
  <2> QED
    BY <1>6, <2>1, <2>2 DEF Commands
<1>7. CASE UNCHANGED vars
  BY <1>2, <1>7 DEF vars, moduleVars
<1> QED
  BY <1>3, <1>4, <1>5, <1>6, <1>7 DEF ConsiderateNext, Next

\* QuietHandover: with clients that leave a retiring module alone, every joint is taken
\* from a module at rest, whether or not disabling brakes the module.
THEOREM HandoverQuiet == ConsiderateSpec => QuietHandover
<1>1. IType /\ RetireInv /\ RestInv /\ QuietInv /\ [ConsiderateNext]_vars
        => [\A j \in Joints : owner'[j] # owner[j] /\ owner[j] \in Modules
              => motion[owner[j]] = 0]_vars
  <2> SUFFICES ASSUME IType, RetireInv, RestInv, QuietInv, [ConsiderateNext]_vars,
                      NEW j \in Joints, owner'[j] # owner[j], owner[j] \in Modules
               PROVE  motion[owner[j]] = 0
    OBVIOUS
  <2>1. ~enabled[owner[j]]
    BY ConsiderateIsNext, TakenDisabled
  <2> QED
    BY <2>1 DEF RestInv, QuietInv
<1> QED
  BY <1>1, ConsiderateIsNext, TypeInit, TypeNext, RetireInit, RetireNext, RestInit, RestNext,
     QuietInit, QuietNext, PTL DEF ConsiderateSpec, QuietHandover
----------------------------------------------------------------------------
(* The modules, each on its own.                                           *)

\* A module that is said to settle is in motion.
SettleInv == \A m \in Modules : settling[m] = "now" => motion[m] > 0

\* No module settles at the start.
LEMMA SettleInit == Init => SettleInv
  BY DEF Init, SettleInv

\* The pass that begins such a motion is the one that says so; a stop does not end it.
LEMMA SettleNext == IType /\ SettleInv /\ [Next]_vars => SettleInv'
<1> SUFFICES ASSUME IType, SettleInv, [Next]_vars PROVE SettleInv'
  OBVIOUS
<1>1. ASSUME UNCHANGED moduleVars PROVE SettleInv'
  BY <1>1 DEF moduleVars, SettleInv
<1>2. ASSUME NEW m \in Modules, RunModule(m) PROVE SettleInv'
  BY <1>2, MotionTyped DEF RunModule, SettleInv, IType, TypeOK, Contract!Settled
<1>3. ASSUME NEW m \in Modules, StopModule(m) PROVE SettleInv'
  BY <1>3 DEF StopModule, SettleInv, IType, TypeOK, Contract!AfterStop
<1>4. ASSUME NEW m \in Modules, DisableModule(m) PROVE SettleInv'
  BY <1>4 DEF DisableModule, SettleInv, IType, TypeOK
<1>5. CASE Commands
  BY <1>5 DEF Commands, HearCommand, Command, SettleInv, IType, TypeOK
<1>6. CASE Assign
  BY <1>6 DEF Assign, SettleInv, IType, TypeOK, Contract!AfterEnable
<1>7. ASSUME NEW m \in Modules, SkipDisabled(m) \/ SeenAtRest(m) PROVE SettleInv'
  BY <1>1, <1>7 DEF SkipDisabled, SeenAtRest, moduleVars, SettleInv
<1>8. CASE Transmit \/ ReadMode \/ LockForModules \/ UnlockModules \/ Queue
             \/ Collect \/ NextPhase \/ UNCHANGED vars
  BY <1>1, <1>8 DEF Transmit, ReadMode, LockForModules, UnlockModules, Queue,
       SetControllerMode, SetJointStates, Receive, Launch, Answer, Collect, NextPhase, vars
<1> QED
  BY <1>2, <1>3, <1>4, <1>5, <1>6, <1>7, <1>8 DEF Next, Timer, Setter

\* What one module sees of a step of the timer thread: its turn in the pass comes, or is
\* over.
LEMMA ContractTimer ==
  ASSUME IType, SettleInv, Timer, NEW m \in Modules
  PROVE  [Contract(m)!Next]_(Contract(m)!vars)
<1> USE DEF IType, TypeOK, Contract!vars
<1>1. CASE Transmit \/ ReadMode \/ UnlockModules
  BY <1>1 DEF Transmit, ReadMode, UnlockModules, moduleVars
<1>2. CASE LockForModules
  <2>1. motion'[m] \in Contract(m)!WithinProcess
    BY <1>2 DEF LockForModules, moduleVars, Contract!WithinProcess
  <2>2. settling'[m] = Contract(m)!Settled(motion'[m]) \/ (settling[m] = "due" /\ settling'[m] = "due")
    BY <1>2 DEF LockForModules, moduleVars, SettleInv, Contract!Settled
  <2>3. Contract(m)!Process
    BY <1>2, <2>1, <2>2 DEF LockForModules, moduleVars, Contract!Process
  <2> QED
    BY <2>3 DEF Contract!Next
<1>3. ASSUME NEW k \in Modules, SkipDisabled(k) PROVE [Contract(m)!Next]_(Contract(m)!vars)
  <2>1. CASE k = m
    <3>1. Contract(m)!EndProcess
      BY <1>3, <2>1 DEF SkipDisabled, moduleVars, Contract!EndProcess
    <3> QED
      BY <3>1 DEF Contract!Next
  <2>2. CASE k # m
    BY <1>3, <2>2 DEF SkipDisabled, moduleVars
  <2> QED
    BY <2>1, <2>2
<1>4. ASSUME NEW k \in Modules, RunModule(k) PROVE [Contract(m)!Next]_(Contract(m)!vars)
  <2>1. CASE k = m
    <3>1. PICK n \in Contract(m)!AfterProcess :
            motion'[m] = n /\ settling'[m] = Contract(m)!Settled(n)
      BY <1>4, <2>1 DEF RunModule
    <3>2. Contract(m)!EndProcess
      BY <1>4, <2>1, <3>1 DEF RunModule, Contract!EndProcess
    <3> QED
      BY <3>2 DEF Contract!Next
  <2>2. CASE k # m
    BY <1>4, <2>2 DEF RunModule
  <2> QED
    BY <2>1, <2>2
<1> QED
  BY <1>1, <1>2, <1>3, <1>4 DEF Timer

\* ... and of a step of the set-module thread: it is stopped, disabled or enabled.
LEMMA ContractSetter ==
  ASSUME IType, Setter, NEW m \in Modules
  PROVE  [Contract(m)!Next]_(Contract(m)!vars)
<1> USE DEF IType, TypeOK, Contract!vars
<1>1. CASE Collect \/ NextPhase \/ \E k \in Modules : SeenAtRest(k)
  BY <1>1 DEF Collect, NextPhase, SeenAtRest, moduleVars, timerVars
<1>2. CASE Assign
  <2>1. UNCHANGED <<motion, stopping, heard, timer, turn>>
    BY <1>2 DEF Assign, timerVars
  <2>2. CASE enabled'[m] /\ ~enabled[m]
    <3>1. ~(timer = "modules" /\ m \in turn)
      BY <1>2 DEF Assign, MutexFree
    <3>2. settling'[m] = Contract(m)!AfterEnable /\ enabled'[m] = TRUE
      BY <1>2, <2>2 DEF Assign
    <3>3. Contract(m)!Enable
      BY <2>1, <2>2, <3>1, <3>2 DEF Contract!Enable
    <3> QED
      BY <3>3 DEF Contract!Next
  <2>3. CASE ~(enabled'[m] /\ ~enabled[m])
    BY <1>2, <2>1, <2>3 DEF Assign
  <2> QED
    BY <2>2, <2>3
<1>3. ASSUME NEW k \in Modules, StopModule(k) PROVE [Contract(m)!Next]_(Contract(m)!vars)
  <2>1. CASE k = m
    <3>1. Contract(m)!Stop
      BY <1>3, <2>1 DEF StopModule, timerVars, Contract!Stop
    <3> QED
      BY <3>1 DEF Contract!Next
  <2>2. CASE k # m
    BY <1>3, <2>2 DEF StopModule, timerVars
  <2> QED
    BY <2>1, <2>2
<1>4. ASSUME NEW k \in Modules, DisableModule(k) PROVE [Contract(m)!Next]_(Contract(m)!vars)
  <2>1. CASE k = m
    <3>1. Contract(m)!Disable
      BY <1>4, <2>1 DEF DisableModule, timerVars, Contract!Disable
    <3> QED
      BY <3>1 DEF Contract!Next
  <2>2. CASE k # m
    BY <1>4, <2>2 DEF DisableModule, timerVars
  <2> QED
    BY <2>1, <2>2
<1> QED
  BY <1>1, <1>2, <1>3, <1>4 DEF Setter

\* Callbacks do not touch a module, a command touches one.
LEMMA ContractNext ==
  ASSUME IType, SettleInv, [Next]_vars, NEW m \in Modules
  PROVE  [Contract(m)!Next]_(Contract(m)!vars)
<1>1. CASE Queue \/ UNCHANGED vars
  BY <1>1 DEF Queue, SetControllerMode, SetJointStates, Receive, Launch, Answer, vars,
              moduleVars, timerVars, Contract!vars
<1>2. ASSUME NEW k \in Modules, Command(k) PROVE [Contract(m)!Next]_(Contract(m)!vars)
  <2>1. CASE k = m
    <3>1. Contract(m)!Command
      BY <1>2, <2>1 DEF Command, timerVars, IType, TypeOK, Contract!Command
    <3> QED
      BY <3>1 DEF Contract!Next
  <2>2. CASE k # m
    <3>1. /\ motion'[m] = motion[m] /\ stopping'[m] = stopping[m]
          /\ settling'[m] = settling[m]
      BY <1>2, <2>2 DEF Command, IType, TypeOK
    <3>2. (m \in heard') = (m \in heard)
      BY <1>2, <2>2 DEF Command
    <3>3. UNCHANGED <<enabled, timer, turn>>
      BY <1>2 DEF Command, timerVars
    <3> QED
      BY <3>1, <3>2, <3>3 DEF Contract!vars
  <2> QED
    BY <2>1, <2>2
<1>3. ASSUME NEW k \in Modules, HearCommand(k) PROVE [Contract(m)!Next]_(Contract(m)!vars)
  <2>1. CASE k = m
    <3>1. Contract(m)!Hear
      BY <1>3, <2>1 DEF HearCommand, timerVars, IType, TypeOK, Contract!Hear
    <3> QED
      BY <3>1 DEF Contract!Next
  <2>2. CASE k # m
    BY <1>3, <2>2 DEF HearCommand, timerVars, IType, TypeOK, Contract!vars
  <2> QED
    BY <2>1, <2>2
<1> QED
  BY <1>1, <1>2, <1>3, ContractTimer, ContractSetter DEF Next, Commands

\* Whatever the threads of the controller do around it, each module lives by the
\* contract of MotionModule: it is enabled only outside process(), moves only after a
\* command or, once, by itself after it was enabled, and is never stopped, disabled or
\* run in a way the contract does not describe.
THEOREM ModulesKeepContract ==
  ASSUME NEW m \in Modules
  PROVE  Spec => Contract(m)!Spec
<1>1. Init => Contract(m)!Init
  BY DEF Init, Contract!Init
<1>2. IType /\ SettleInv /\ [Next]_vars => [Contract(m)!Next]_(Contract(m)!vars)
  BY ContractNext
<1> QED
  BY <1>1, <1>2, SettleInit, SettleNext, ITypeCorrect, PTL DEF Spec, Contract!Spec
=============================================================================
