--------------------------- MODULE ManagerProofs ---------------------------
(***************************************************************************)
(* Proofs about op3_manager, for every set of modules and any number of    *)
(* presses, checks and requests: the threads of its process do not wait    *)
(* for each other for ever. And about the modules it loads that play a     *)
(* trajectory of their own, as instances: head control and direct control  *)
(* are Motion, the base module is Base. A trajectory does not survive its  *)
(* ownership, and the base module's joints do not jump.                    *)
(***************************************************************************)
EXTENDS Manager, Integers, Sequences, TLAPS

USE ModulesAssumption, TicksAssumption, RestartsAssumption

----------------------------------------------------------------------------

LEMMA TypeInit == Init => TypeOK
<1> SUFFICES ASSUME Init PROVE TypeOK
  OBVIOUS
<1>1. {torque, timer, running, stop, stopping} \subseteq BOOLEAN
  BY DEF Init
<1>2. handled \in 0 .. MaxRestarts /\ motion \in 0 .. StopTicks
  BY DEF Init
<1>3. asked \in Targets /\ target \in Targets /\ inForce \in Targets
  BY DEF Init, Targets
<1> QED
  BY <1>1, <1>2, <1>3 DEF Init, TypeOK

LEMMA TypeNext == TypeOK /\ [Next]_vars => TypeOK'
<1> SUFFICES ASSUME TypeOK, [Next]_vars PROVE TypeOK'
  OBVIOUS
<1> USE DEF TypeOK
<1>1. CASE Callback
  BY <1>1 DEF Callback, QueueJoins, QueueAssigns, Joining, Launch, mainVars, timerVars,
              moduleVars, endVars
<1>2. CASE Setter
  BY <1>2 DEF Setter, Stop, HandOver, mainVars, timerVars, queueVars, endVars
<1>3. CASE Cycle
  <2>1. motion' \in 0 .. StopTicks
    BY <1>3 DEF Cycle
  <2> QED
    BY <1>3, <2>1 DEF Cycle, mainVars, timerVars, queueVars, setterVars, endVars
<1>4. CASE TimerEnds
  BY <1>4 DEF TimerEnds, mainVars, queueVars, setterVars, moduleVars, endVars
<1>5. CASE Handler
  BY <1>5 DEF Handler, MainJoins, MainAssigns, Joining, Launch, Halt, TimerJoined, Initialize, Start, Targets,
              timerVars, queueVars, setterVars, moduleVars, endVars
<1>6. CASE Failure
  BY <1>6 DEF Failure, PortFails, ChangedEEPROM, FirstReadFails,
              mainVars, timerVars, queueVars, setterVars, moduleVars
<1>7. CASE \E m \in Targets : Request(m)
  BY <1>7 DEF Request, mainVars, timerVars, setterVars, moduleVars, endVars
<1>8. CASE Command
  BY <1>8 DEF Command, mainVars, timerVars, queueVars, setterVars, endVars
<1>9. CASE LoseTorque
  BY <1>9 DEF LoseTorque, mainVars, timerVars, queueVars, setterVars, moduleVars, endVars
<1>10. CASE Press \/ Check
  <2>1. handled' \in 0 .. MaxRestarts
    BY <1>10 DEF Press, Check
  <2> QED
    BY <1>10, <2>1 DEF Press, Check, timerVars, queueVars, setterVars, moduleVars, endVars
<1>11. CASE UNCHANGED vars
  BY <1>11 DEF vars, mainVars, timerVars, queueVars, setterVars, moduleVars, endVars
<1> QED
  BY <1>1, <1>2, <1>3, <1>4, <1>5, <1>6, <1>7, <1>8, <1>9, <1>10, <1>11
     DEF Next, Environment

\* Every variable keeps its type.
THEOREM TypeCorrect == Spec => []TypeOK
BY TypeInit, TypeNext, PTL DEF Spec

----------------------------------------------------------------------------
(* The timer runs whenever the main thread is not bringing it back.        *)

TimerUp ==
  /\ main \in {"spin", "join", "assign", "halt"} => failed \/ (timer /\ running)
  /\ stop => main = "stop"

WaitInv == TypeOK /\ TimerUp

LEMMA WaitNext == WaitInv /\ [Next]_vars => WaitInv'
<1> SUFFICES ASSUME WaitInv, [Next]_vars PROVE WaitInv'
  OBVIOUS
<1>0. TypeOK'
  BY TypeNext DEF WaitInv
<1>1. TimerUp'
  <2> USE DEF WaitInv, TypeOK, TimerUp
  <2>1. CASE Callback
    BY <2>1 DEF Callback, QueueJoins, QueueAssigns, Joining, Launch, mainVars, timerVars, endVars
  <2>2. CASE Setter \/ Cycle \/ TimerEnds
    BY <2>2 DEF Setter, Stop, HandOver, Cycle, TimerEnds, mainVars, timerVars, endVars
  <2>3. CASE Handler
    BY <2>3 DEF Handler, MainJoins, MainAssigns, Joining, Launch, Halt, TimerJoined, Initialize, Start, timerVars, endVars
  <2>4. CASE Failure
    BY <2>4 DEF Failure, PortFails, ChangedEEPROM, FirstReadFails, mainVars, timerVars
  <2>5. CASE Environment
    BY <2>5 DEF Environment, Request, Command, LoseTorque, Press, Check,
                mainVars, timerVars, endVars
  <2>6. CASE UNCHANGED vars
    BY <2>6 DEF vars, mainVars, timerVars, endVars
  <2> QED
    BY <2>1, <2>2, <2>3, <2>4, <2>5, <2>6 DEF Next
<1> QED
  BY <1>0, <1>1 DEF WaitInv

LEMMA WaitHolds == Spec => []WaitInv
<1>1. Init => WaitInv
  BY TypeInit DEF WaitInv, Init, TimerUp
<1> QED
  BY <1>1, WaitNext, PTL DEF Spec

\* setCtrlModule() and the set-module callbacks never join a thread that a
\* stopped timer keeps from ending, whichever presses, checks and requests fall
\* together, unless a port could not be opened.
THEOREM NobodyWaitsForEver == Spec => []NoDeadlock
<1>1. WaitInv => NoDeadlock
  BY DEF WaitInv, TypeOK, TimerUp, NoDeadlock
<1> QED
  BY <1>1, WaitHolds, PTL

----------------------------------------------------------------------------
(* Head control and direct control, for any number of places, any scan and *)
(* any number of threads. What has the same name in these modules and in   *)
(* the manager is declared once; no theorem speaks of two of them.         *)

CONSTANTS Far, Corners, Blocked, MaxThreads, Careful, Overlap
VARIABLES module, enabled, known, moving, size, count, from, to, scan, held, seen, goal,
          pc, ros, message, threads, handover, wanted

Motion == INSTANCE JointTargets

\* What JointTargets assumes of its constants.
MotionAssumed ==
  /\ Motion!FarAssumption /\ Motion!PlacesAssumption
  /\ Motion!ThreadsAssumption /\ Motion!ClientAssumption

USE DEF MotionAssumed, Motion!FarAssumption, Motion!PlacesAssumption,
        Motion!ThreadsAssumption, Motion!ClientAssumption

----------------------------------------------------------------------------
(* Types. A row of the trajectory is a place because the trajectory is as  *)
(* long as its ends are apart; the threads are bounded because each that   *)
(* comes from the end of a motion replaces that motion.                    *)

Pending == (IF size = 0 THEN 0 ELSE 1) + (IF ros \in {"wait", "set"} THEN 1 ELSE 0)

SizeFits == size # 0 => size = Motion!Rows(from, to)

Bounded == Motion!TypeOK /\ SizeFits /\ threads + Pending <= MaxThreads + 1

LEMMA RowIsPlace ==
  ASSUME MotionAssumed, NEW a \in Motion!Places, NEW b \in Motion!Places, NEW k \in Nat,
         k < Motion!Rows(a, b)
  PROVE  Motion!Row(a, b, k) \in Motion!Places
BY DEF Motion!Places, Motion!Row, Motion!Rows

LEMMA RowsInRange ==
  ASSUME MotionAssumed, NEW a \in Motion!Places, NEW b \in Motion!Places
  PROVE  Motion!Rows(a, b) \in 1 .. Far + 1
BY DEF Motion!Places, Motion!Rows

LEMMA CornerIsPlace ==
  ASSUME MotionAssumed, NEW i \in 1 .. Len(Corners)
  PROVE  Corners[i] \in Motion!Places
BY DEF Motion!Places

LEMMA NextCorner ==
  ASSUME MotionAssumed, NEW i \in 1 .. Len(Corners)
  PROVE  (i % Len(Corners)) + 1 \in 1 .. Len(Corners)
<1>1. Len(Corners) \in Nat \ {0}
  OBVIOUS
<1> QED
  BY <1>1

LEMMA BoundedInit == ASSUME MotionAssumed PROVE Motion!Init => Bounded
<1> SUFFICES ASSUME Motion!Init PROVE Bounded
  OBVIOUS
<1>1. Motion!FlagsOK
  BY DEF Motion!Init, Motion!FlagsOK
<1>2. Motion!PlacesOK
  BY DEF Motion!Init, Motion!PlacesOK, Motion!Places
<1>3. Motion!CountsOK
  BY DEF Motion!Init, Motion!CountsOK
<1>4. SizeFits
  BY DEF Motion!Init, SizeFits
<1>5. threads + Pending <= MaxThreads + 1
  BY DEF Motion!Init, Pending
<1> QED
  BY <1>1, <1>2, <1>3, <1>4, <1>5 DEF Bounded, Motion!TypeOK

LEMMA FlagsNext ==
  ASSUME MotionAssumed
  PROVE  Bounded /\ [Motion!Next]_(Motion!vars) => Motion!FlagsOK'
<1> SUFFICES ASSUME Bounded, [Motion!Next]_(Motion!vars) PROVE Motion!FlagsOK'
  OBVIOUS
<1> USE DEF Bounded, Motion!TypeOK, Motion!FlagsOK, Motion!moduleVars, Motion!moveVars,
            Motion!trajectory, Motion!jointVars, Motion!rosVars
<1>1. CASE Motion!Message
  BY <1>1 DEF Motion!Message, Motion!Listens
<1>2. CASE Motion!Take \/ Motion!GiveUp
  BY <1>2 DEF Motion!Take, Motion!GiveUp
<1>3. CASE Motion!Spawn \/ Motion!Join
  BY <1>3 DEF Motion!Spawn, Motion!Join
<1>4. CASE Motion!ScanCommand \/ Motion!ScanStop
  BY <1>4 DEF Motion!ScanCommand, Motion!ScanStop, Motion!Listens
<1>5. CASE Motion!Generate
  BY <1>5 DEF Motion!Generate
<1>6. CASE Motion!Begin
  BY <1>6 DEF Motion!Begin
<1>7. CASE Motion!StopMoving
  BY <1>7 DEF Motion!StopMoving, Motion!Give
<1>8. CASE Motion!Rest
  BY <1>8 DEF Motion!Rest, Motion!Give
<1>9. CASE Motion!Play
  BY <1>9 DEF Motion!Play, Motion!Give
<1>10. CASE Motion!Finish
  BY <1>10 DEF Motion!Finish, Motion!Give
<1>11. CASE Motion!TakeAway
  BY <1>11 DEF Motion!TakeAway
<1>12. CASE Motion!SeenAtRest
  BY <1>12 DEF Motion!SeenAtRest
<1>13. CASE Motion!Disable
  BY <1>13 DEF Motion!Disable
<1>14. CASE Motion!Enable
  BY <1>14 DEF Motion!Enable
<1>15. CASE Motion!OthersMove
  BY <1>15 DEF Motion!OthersMove
<1>16. CASE UNCHANGED Motion!vars
  BY <1>16 DEF Motion!vars
<1> QED
  BY <1>1, <1>2, <1>3, <1>4, <1>5, <1>6, <1>7, <1>8, <1>9, <1>10, <1>11, <1>12, <1>13,
     <1>14, <1>15, <1>16 DEF Motion!Next, Motion!Process

LEMMA PlacesNext ==
  ASSUME MotionAssumed
  PROVE  Bounded /\ [Motion!Next]_(Motion!vars) => Motion!PlacesOK'
<1> SUFFICES ASSUME Bounded, [Motion!Next]_(Motion!vars) PROVE Motion!PlacesOK'
  OBVIOUS
<1> USE DEF Bounded, Motion!TypeOK, Motion!FlagsOK, Motion!PlacesOK, Motion!CountsOK,
            Motion!moduleVars, Motion!moveVars, Motion!trajectory,
            Motion!jointVars, Motion!rosVars
<1>1. CASE Motion!Message
  BY <1>1 DEF Motion!Message, Motion!Places
<1>2. CASE Motion!Take
  BY <1>2 DEF Motion!Take, Motion!Limited, Motion!Places
<1>3. CASE Motion!GiveUp \/ Motion!Join \/ Motion!ScanStop
  BY <1>3 DEF Motion!GiveUp, Motion!Join, Motion!ScanStop
<1>4. CASE Motion!Spawn
  BY <1>4 DEF Motion!Spawn, Motion!Places
<1>5. CASE Motion!ScanCommand
  BY <1>5, CornerIsPlace DEF Motion!ScanCommand
<1>6. CASE Motion!Generate
  BY <1>6 DEF Motion!Generate
<1>7. CASE Motion!Begin \/ Motion!SeenAtRest \/ Motion!Disable \/ Motion!Enable \/ Motion!TakeAway
  BY <1>7 DEF Motion!Begin, Motion!SeenAtRest, Motion!Disable, Motion!Enable, Motion!TakeAway
<1>8. CASE Motion!StopMoving \/ Motion!Rest
  BY <1>8 DEF Motion!StopMoving, Motion!Rest, Motion!Give
<1>9. CASE Motion!Play
  <2>1. Motion!Row(from, to, count) \in Motion!Places
    BY <1>9, RowIsPlace DEF Motion!Play, SizeFits
  <2> QED
    BY <1>9, <2>1 DEF Motion!Play, Motion!Give
<1>10. CASE Motion!Finish
  <2>1. CASE scan = 0
    BY <1>10, <2>1 DEF Motion!Finish, Motion!Give
  <2>2. CASE scan # 0
    <3>1. scan' = (scan % Len(Corners)) + 1 /\ target' = Corners[scan']
      BY <1>10, <2>2 DEF Motion!Finish
    <3>2. scan' \in 1 .. Len(Corners)
      BY <2>2, <3>1, NextCorner
    <3>3. target' \in Motion!Places
      BY <3>1, <3>2, CornerIsPlace
    <3> QED
      BY <1>10, <3>3 DEF Motion!Finish, Motion!Give
  <2> QED
    BY <2>1, <2>2
<1>11. CASE Motion!OthersMove
  BY <1>11 DEF Motion!OthersMove
<1>12. CASE UNCHANGED Motion!vars
  BY <1>12 DEF Motion!vars
<1> QED
  BY <1>1, <1>2, <1>3, <1>4, <1>5, <1>6, <1>7, <1>8, <1>9, <1>10, <1>11, <1>12
  DEF Motion!Next, Motion!Process

LEMMA CountsNext ==
  ASSUME MotionAssumed
  PROVE  Bounded /\ [Motion!Next]_(Motion!vars)
           => Motion!CountsOK' /\ SizeFits' /\ (threads + Pending <= MaxThreads + 1)'
<1> SUFFICES ASSUME Bounded, [Motion!Next]_(Motion!vars)
             PROVE  Motion!CountsOK' /\ SizeFits' /\ (threads + Pending <= MaxThreads + 1)'
  OBVIOUS
<1> USE DEF Bounded, Motion!TypeOK, Motion!FlagsOK, Motion!CountsOK, SizeFits, Pending,
            Motion!moduleVars, Motion!moveVars,
            Motion!trajectory, Motion!jointVars, Motion!rosVars
<1>1. CASE Motion!Message
  BY <1>1 DEF Motion!Message, Motion!Listens
<1>2. CASE Motion!Take
  BY <1>2 DEF Motion!Take
<1>3. CASE Motion!GiveUp
  BY <1>3 DEF Motion!GiveUp
<1>4. CASE Motion!Spawn
  BY <1>4 DEF Motion!Spawn
<1>5. CASE Motion!Join
  BY <1>5 DEF Motion!Join
<1>6. CASE Motion!ScanCommand
  BY <1>6 DEF Motion!ScanCommand, Motion!Listens
<1>7. CASE Motion!ScanStop
  BY <1>7 DEF Motion!ScanStop
<1>8. CASE Motion!Generate
  <2>1. Motion!Rows(seen, target) \in 1 .. Far + 1
    BY RowsInRange DEF Motion!PlacesOK
  <2>2. size' = Motion!Rows(from', to') /\ size' \in 1 .. Far + 1 /\ count' = 0
    BY <1>8, <2>1 DEF Motion!Generate
  <2> QED
    BY <1>8, <2>2 DEF Motion!Generate
<1>9. CASE Motion!Begin
  BY <1>9 DEF Motion!Begin
<1>10. CASE Motion!StopMoving
  BY <1>10 DEF Motion!StopMoving
<1>11. CASE Motion!Rest
  BY <1>11 DEF Motion!Rest
<1>12. CASE Motion!Play
  BY <1>12 DEF Motion!Play
<1>13. CASE Motion!Finish
  <2>1. scan' \in 0 .. Len(Corners)
    BY <1>13, NextCorner DEF Motion!Finish
  <2> QED
    BY <1>13, <2>1 DEF Motion!Finish
<1>14. CASE Motion!TakeAway \/ Motion!SeenAtRest
  BY <1>14 DEF Motion!TakeAway, Motion!SeenAtRest
<1>15. CASE Motion!Disable
  BY <1>15 DEF Motion!Disable
<1>16. CASE Motion!Enable
  BY <1>16 DEF Motion!Enable
<1>17. CASE Motion!OthersMove
  BY <1>17 DEF Motion!OthersMove
<1>18. CASE UNCHANGED Motion!vars
  BY <1>18 DEF Motion!vars
<1> QED
  BY <1>1, <1>2, <1>3, <1>4, <1>5, <1>6, <1>7, <1>8, <1>9, <1>10, <1>11, <1>12, <1>13,
     <1>14, <1>15, <1>16, <1>17, <1>18 DEF Motion!Next, Motion!Process

LEMMA MotionAlwaysBounded == ASSUME MotionAssumed PROVE Motion!Spec => []Bounded
<1>1. Bounded /\ [Motion!Next]_(Motion!vars) => Bounded'
  BY FlagsNext, PlacesNext, CountsNext DEF Bounded, Motion!TypeOK
<1> QED
  BY BoundedInit, <1>1, PTL DEF Motion!Spec

\* Every variable keeps its type: no target, and so no row, is beyond the limits of the
\* joint, and the count never leaves the trajectory, however many threads are under way.
THEOREM TargetsTypeCorrect == ASSUME MotionAssumed PROVE Motion!Spec => []Motion!TypeOK
<1>1. Bounded => Motion!TypeOK
  BY DEF Bounded
<1> QED
  BY MotionAlwaysBounded, <1>1, PTL

----------------------------------------------------------------------------
(* Ownership. While threads do not meet inside what takes microseconds and *)
(* clients are careful, nothing is under way in a disabled module, and the *)
(* direct control is only taken away from a joint whose motion stop() sees.*)

Settled ==
  /\ stopping => moving
  /\ handover = "disable" => ~stopping
  /\ handover # "none" => enabled
  /\ ~enabled => threads = 0 /\ pc = "idle" /\ ros \in {"idle", "wait"}
  /\ ~enabled /\ (Motion!IsHead \/ ros = "wait") => ~known
  /\ threads > 0 \/ ros = "set" \/ size # 0 => known
  /\ ~Motion!IsHead => scan = 0 /\ (threads > 0 => ros = "join")
  /\ ~Motion!IsHead /\ handover # "none" => ros = "idle" /\ (size # 0 => moving)
  /\ ~Motion!IsHead /\ handover = "disable" => ~moving /\ size = 0

Owned == Settled /\ Motion!NothingKept

LEMMA OwnedInit == ASSUME MotionAssumed PROVE Motion!Init => Owned
BY DEF Motion!Init, Owned, Settled, Motion!NothingKept, Motion!IsHead

LEMMA OwnedNext ==
  ASSUME MotionAssumed, Careful, ~Overlap, Bounded, Owned, [Motion!Next]_(Motion!vars)
  PROVE  Owned'
<1> USE DEF Bounded, Motion!TypeOK, Motion!FlagsOK, Motion!CountsOK, Owned, Settled,
            Motion!NothingKept, Motion!IsHead,
            Motion!moduleVars, Motion!moveVars, Motion!trajectory, Motion!jointVars, Motion!rosVars
<1>1. CASE Motion!Message
  BY <1>1 DEF Motion!Message, Motion!Listens
<1>2. CASE Motion!Take
  BY <1>2 DEF Motion!Take
<1>3. CASE Motion!GiveUp
  BY <1>3 DEF Motion!GiveUp
<1>4. CASE Motion!Spawn
  BY <1>4 DEF Motion!Spawn
<1>5. CASE Motion!Join
  BY <1>5 DEF Motion!Join
<1>6. CASE Motion!ScanCommand
  BY <1>6 DEF Motion!ScanCommand, Motion!Listens
<1>7. CASE Motion!ScanStop
  BY <1>7 DEF Motion!ScanStop, Motion!Listens
<1>8. CASE Motion!Generate
  BY <1>8 DEF Motion!Generate
<1>9. CASE Motion!Begin
  BY <1>9 DEF Motion!Begin
<1>10. CASE Motion!StopMoving
  BY <1>10 DEF Motion!StopMoving
<1>11. CASE Motion!Rest
  BY <1>11 DEF Motion!Rest
<1>12. CASE Motion!Play
  BY <1>12 DEF Motion!Play
<1>13. CASE Motion!Finish
  BY <1>13 DEF Motion!Finish
<1>14. CASE Motion!TakeAway
  BY <1>14 DEF Motion!TakeAway
<1>15. CASE Motion!SeenAtRest
  BY <1>15 DEF Motion!SeenAtRest
<1>16. CASE Motion!Disable
  BY <1>16 DEF Motion!Disable, Motion!Brief
<1>17. CASE Motion!Enable
  BY <1>17 DEF Motion!Enable
<1>18. CASE Motion!OthersMove
  BY <1>18 DEF Motion!OthersMove
<1>19. CASE UNCHANGED Motion!vars
  BY <1>19 DEF Motion!vars
<1> QED
  BY <1>1, <1>2, <1>3, <1>4, <1>5, <1>6, <1>7, <1>8, <1>9, <1>10, <1>11, <1>12, <1>13,
     <1>14, <1>15, <1>16, <1>17, <1>18, <1>19 DEF Motion!Next, Motion!Process

LEMMA AlwaysOwned ==
  ASSUME MotionAssumed, Careful, ~Overlap
  PROVE  Motion!Spec => []Owned
<1>1. Bounded /\ Owned /\ [Motion!Next]_(Motion!vars) => Owned'
  BY OwnedNext
<1> QED
  BY OwnedInit, MotionAlwaysBounded, <1>1, PTL DEF Motion!Spec

\* A trajectory, a stop or a motion is not left behind for the module's next time:
\* although direct control clears nothing when it is disabled, there is nothing to clear.
THEOREM NothingKeptBehind ==
  ASSUME MotionAssumed, Careful, ~Overlap
  PROVE  Motion!Spec => []Motion!NothingKept
<1>1. Owned => Motion!NothingKept
  BY DEF Owned
<1> QED
  BY AlwaysOwned, <1>1, PTL

----------------------------------------------------------------------------
(* The base module, for trajectories of every length.                      *)

CONSTANT Exclusive
VARIABLES retiring, cnt, trajectory, row, worker

Base == INSTANCE BaseModule

\* What BaseModule assumes of its constants.
BaseAssumed == Base!FarAssumption /\ Base!ClientAssumption

USE DEF BaseAssumed, Base!FarAssumption, Base!ClientAssumption

\* The count passes the last row only between cnt_++ and cnt_ = 0 of the timer thread,
\* and there the move is still on: the trajectory thread sets is_moving_, and cnt_
\* to zero, but never clears the one or raises the other.
CountBounded ==
  /\ pc \in {"idle", "known", "play", "count"} => cnt <= Far
  /\ pc = "count" => moving /\ row <= Far
  /\ pc = "end" /\ cnt > Far => moving

BaseBounded == Base!TypeOK /\ CountBounded

LEMMA BaseInit == ASSUME BaseAssumed PROVE Base!Init => BaseBounded
<1> SUFFICES ASSUME Base!Init PROVE BaseBounded
  OBVIOUS
<1>1. Base!TypeOK
  <2>1. {enabled, known, retiring, moving, asked} \subseteq BOOLEAN
    BY DEF Base!Init
  <2>2. {cnt, row} \subseteq 0 .. Far + 1
    BY DEF Base!Init
  <2>3. {trajectory, seen, goal} \subseteq Base!Goals
    BY DEF Base!Init, Base!Goals
  <2> QED
    BY <2>1, <2>2, <2>3 DEF Base!Init, Base!TypeOK
<1>2. CountBounded
  BY DEF Base!Init, CountBounded
<1> QED
  BY <1>1, <1>2 DEF BaseBounded

\* A row of a trajectory is a position.
LEMMA BaseRowTyped ==
  ASSUME BaseAssumed
  PROVE  \A a \in Base!Goals, r \in Nat : Base!Row(a, r) \in Base!Goals
BY DEF Base!Row, Base!Goals

LEMMA BaseNext ==
  ASSUME BaseAssumed
  PROVE  BaseBounded /\ [Base!Next]_(Base!vars) => BaseBounded'
<1> SUFFICES ASSUME BaseBounded, [Base!Next]_(Base!vars) PROVE BaseBounded'
  OBVIOUS
<1> USE DEF BaseBounded, Base!TypeOK, CountBounded
<1>1. CASE Base!Message
  BY <1>1 DEF Base!Message, Base!timerVars, Base!moduleVars, Base!moveVars
<1>2. CASE Base!MessageRefused
  BY <1>2 DEF Base!MessageRefused, Base!vars, Base!timerVars, Base!moduleVars, Base!moveVars
<1>3. CASE Base!HaveJoints
  BY <1>3 DEF Base!HaveJoints, Base!timerVars, Base!moduleVars, Base!moveVars
<1>4. CASE Base!Spawn
  BY <1>4 DEF Base!Spawn, Base!timerVars, Base!moduleVars, Base!moveVars
<1>5. CASE Base!Worker
  <2>1. CASE Base!Generate
    BY <2>1 DEF Base!Generate, Base!timerVars, Base!moduleVars
  <2>2. CASE Base!SetMoving
    BY <2>2 DEF Base!SetMoving, Base!timerVars, Base!moduleVars
  <2>3. CASE Base!ResetCount
    BY <2>3 DEF Base!ResetCount, Base!timerVars, Base!moduleVars
  <2> QED
    BY <1>5, <2>1, <2>2, <2>3 DEF Base!Worker
<1>6. CASE Base!Timer
  <2>1. CASE Base!ReadGoals
    BY <2>1 DEF Base!ReadGoals, Base!moduleVars, Base!moveVars
  <2>2. CASE Base!GoalsKnown
    BY <2>2 DEF Base!GoalsKnown, Base!moveVars
  <2>3. CASE Base!Play
    BY <2>3, BaseRowTyped DEF Base!Play, Base!moduleVars, Base!moveVars
  <2>4. CASE Base!Count
    BY <2>4 DEF Base!Count, Base!moduleVars
  <2>5. CASE Base!End
    <3>1. CASE cnt >= Far + 1 /\ moving
      BY <2>5, <3>1 DEF Base!End, Base!moduleVars
    <3>2. CASE ~(cnt >= Far + 1 /\ moving)
      BY <2>5, <3>2 DEF Base!End, Base!moduleVars
    <3> QED
      BY <3>1, <3>2
  <2>6. CASE Base!EndReset
    BY <2>6 DEF Base!EndReset, Base!moduleVars
  <2> QED
    BY <1>6, <2>1, <2>2, <2>3, <2>4, <2>5, <2>6 DEF Base!Timer
<1>7. CASE Base!Controller
  <2>1. CASE Base!Grant
    BY <2>1 DEF Base!Grant, Base!timerVars, Base!moveVars
  <2>2. CASE Base!SeenAtRest
    BY <2>2 DEF Base!SeenAtRest, Base!timerVars, Base!moveVars
  <2>3. CASE Base!Disable
    BY <2>3 DEF Base!Disable, Base!timerVars, Base!moveVars
  <2>4. CASE Base!MoveElsewhere
    BY <2>4 DEF Base!MoveElsewhere, Base!moduleVars, Base!moveVars
  <2> QED
    BY <1>7, <2>1, <2>2, <2>3, <2>4 DEF Base!Controller
<1>8. CASE UNCHANGED Base!vars
  BY <1>8 DEF Base!vars, Base!timerVars, Base!moduleVars, Base!moveVars
<1> QED
  BY <1>1, <1>2, <1>3, <1>4, <1>5, <1>6, <1>7, <1>8 DEF Base!Next

LEMMA BaseAlwaysBounded == ASSUME BaseAssumed PROVE Base!Spec => []BaseBounded
BY BaseInit, BaseNext, PTL DEF Base!Spec

\* Every variable of the base module keeps its type, cnt_ and the row read among them,
\* whichever assignments of the threads fall together.
THEOREM BaseTypeCorrect == ASSUME BaseAssumed PROVE Base!Spec => []Base!TypeOK
<1>1. BaseBounded => Base!TypeOK
  BY DEF BaseBounded
<1> QED
  BY <1>1, BaseAlwaysBounded, PTL

\* The row that process() plays is always a row of calc_joint_tra_: no race of
\* is_moving_ and cnt_, with any client, leads outside the trajectory.
THEOREM BaseRowsExist == ASSUME BaseAssumed PROVE Base!Spec => []Base!RowExists
<1>1. BaseBounded => Base!RowExists
  BY DEF BaseBounded, CountBounded, Base!RowExists
<1> QED
  BY <1>1, BaseAlwaysBounded, PTL

(* With clients that ask for nothing else until the pose is reached, and   *)
(* threads that do not meet inside what takes microseconds, the joint      *)
(* stays the module's from the command to the end of the move.             *)
BaseOwned ==
  /\ pc # "idle" => enabled
  /\ ~enabled => ~known
  /\ known \/ pc # "idle" => seen = goal
  /\ ros # "idle" \/ worker # "none" \/ moving => ~retiring
  /\ ros = "join" \/ worker # "none" \/ moving => enabled /\ known
  /\ ros = "idle" \/ worker = "none"
  /\ moving => ros = "idle" /\ worker \in {"none", "count"}
  /\ worker = "count" => moving

\* The joint is at the row before cnt_, from the first, which is where it was, on.
OnTrajectory ==
  /\ ~moving => cnt = 0 \/ pc = "reset"
  /\ worker = "count" /\ pc # "reset" =>
       cnt <= 1 /\ (pc \in {"known", "play", "count"} => cnt = 0)
  /\ pc = "count" => cnt = row /\ goal = Base!Row(trajectory, row)
  /\ worker \in {"move", "count"} => goal = trajectory
  /\ moving /\ pc # "count" =>
       goal = IF cnt = 0 \/ pc = "reset" THEN trajectory ELSE Base!Row(trajectory, cnt - 1)

LEMMA BaseOwnedNext ==
  ASSUME BaseAssumed, Exclusive, ~Overlap, BaseBounded, BaseOwned, OnTrajectory,
         [Base!Next]_(Base!vars)
  PROVE  BaseOwned'
<1> USE DEF BaseBounded, Base!TypeOK, BaseOwned, Base!timerVars, Base!moduleVars, Base!moveVars
<1>1. CASE Base!Message
  BY <1>1 DEF Base!Message, Base!Quiet
<1>2. CASE Base!HaveJoints \/ Base!Spawn
  BY <1>2 DEF Base!HaveJoints, Base!Spawn
<1>3. CASE Base!Worker
  BY <1>3 DEF Base!Worker, Base!Generate, Base!SetMoving, Base!ResetCount
<1>4. CASE Base!ReadGoals \/ Base!GoalsKnown
  BY <1>4 DEF Base!ReadGoals, Base!GoalsKnown
<1>5. CASE Base!Play
  BY <1>5 DEF Base!Play
<1>6. CASE Base!Count \/ Base!End \/ Base!EndReset
  <2>1. CASE Base!Count
    BY <2>1 DEF Base!Count
  <2>2. CASE Base!End
    BY <2>2 DEF Base!End, OnTrajectory
  <2>3. CASE Base!EndReset
    BY <2>3 DEF Base!EndReset
  <2> QED
    BY <1>6, <2>1, <2>2, <2>3
<1>7. CASE Base!Grant \/ Base!Disable \/ Base!MoveElsewhere
  BY <1>7 DEF Base!Grant, Base!Disable, Base!MoveElsewhere
<1>8. CASE Base!SeenAtRest
  BY <1>8 DEF Base!SeenAtRest, Base!Quiet
<1>9. CASE Base!MessageRefused \/ UNCHANGED Base!vars
  BY <1>9 DEF Base!MessageRefused, Base!vars
<1> QED
  BY <1>1, <1>2, <1>3, <1>4, <1>5, <1>6, <1>7, <1>8, <1>9
  DEF Base!Next, Base!Timer, Base!Controller

\* One row is a step from the row before it.
LEMMA BaseRowsAdjacent ==
  ASSUME BaseAssumed, NEW a \in Base!Goals, NEW k \in Nat, k <= Far
  PROVE  /\ Base!Row(a, 0) = a
         /\ \/ Base!Row(a, k + 1) - Base!Row(a, k) \in {0, 1}
            \/ Base!Row(a, k) - Base!Row(a, k + 1) \in {0, 1}
BY DEF Base!Row, Base!Goals

LEMMA OnTrajectoryNext ==
  ASSUME BaseAssumed, ~Overlap, BaseBounded, BaseOwned, OnTrajectory, [Base!Next]_(Base!vars)
  PROVE  OnTrajectory'
<1> USE DEF BaseBounded, Base!TypeOK, CountBounded, OnTrajectory, Base!timerVars,
            Base!moduleVars, Base!moveVars
<1>0. Base!Row(trajectory, 0) = trajectory
  BY DEF Base!Row, Base!Goals
<1>1. CASE Base!Message \/ Base!HaveJoints \/ Base!Spawn
  <2>1. /\ UNCHANGED <<pc, row, seen, goal, enabled, known, retiring, moving, cnt, trajectory>>
        /\ worker' = worker \/ (worker = "none" /\ worker' = "generate")
    BY <1>1 DEF Base!Message, Base!HaveJoints, Base!Spawn
  <2> QED
    BY <2>1
<1>2. CASE Base!Generate
  BY <1>2 DEF Base!Generate, BaseOwned
<1>3. CASE Base!SetMoving
  BY <1>3 DEF Base!SetMoving, BaseOwned
<1>4. CASE Base!ResetCount
  BY <1>0, <1>4 DEF Base!ResetCount, BaseOwned
<1>5. CASE Base!ReadGoals
  BY <1>5 DEF Base!ReadGoals
<1>6. CASE Base!GoalsKnown
  BY <1>6 DEF Base!GoalsKnown
<1>7. CASE Base!Play
  BY <1>0, <1>7 DEF Base!Play, BaseOwned
<1>8. CASE Base!Count
  <2>1. /\ pc = "count" /\ cnt' = cnt + 1 /\ pc' = "end" /\ cnt = row /\ moving
        /\ UNCHANGED <<row, seen, goal, moving, trajectory, worker>>
    BY <1>8 DEF Base!Count
  <2>2. cnt' # 0 /\ cnt' - 1 = row /\ (worker = "count" => cnt' <= 1)
    BY <2>1
  <2> QED
    BY <2>1, <2>2
<1>9. CASE Base!End
  BY <1>0, <1>9 DEF Base!End, BaseOwned
<1>10. CASE Base!EndReset
  BY <1>10 DEF Base!EndReset
<1>11. CASE Base!Controller
  BY <1>11 DEF Base!Controller, Base!Grant, Base!SeenAtRest, Base!Disable, Base!MoveElsewhere,
               BaseOwned
<1>12. CASE Base!MessageRefused \/ UNCHANGED Base!vars
  BY <1>12 DEF Base!MessageRefused, Base!vars
<1> QED
  BY <1>1, <1>2, <1>3, <1>4, <1>5, <1>6, <1>7, <1>8, <1>9, <1>10, <1>11, <1>12
  DEF Base!Next, Base!Worker, Base!Timer

\* A step of process() with a row is a step to that row or the next.
LEMMA BaseStep ==
  ASSUME BaseAssumed, ~Overlap, BaseBounded, BaseOwned, OnTrajectory, [Base!Next]_(Base!vars),
         pc = "play"
  PROVE  goal' - goal \in {0, 1} \/ goal - goal' \in {0, 1}
<1> USE DEF BaseBounded, Base!TypeOK, CountBounded
<1>0. goal \in Nat /\ enabled
  BY DEF Base!Goals, BaseOwned
<1>1. CASE Base!Play /\ moving
  <2>1. goal' = Base!Row(trajectory, cnt) /\ cnt <= Far
    BY <1>1 DEF Base!Play
  <2>2. CASE cnt = 0
    BY <1>0, <1>1, <2>1, <2>2, BaseRowsAdjacent DEF OnTrajectory
  <2>3. CASE cnt # 0
    <3>1. cnt - 1 \in Nat /\ (cnt - 1) + 1 = cnt /\ cnt - 1 <= Far
      BY <2>1, <2>3
    <3>2. goal = Base!Row(trajectory, cnt - 1)
      BY <1>1, <2>3 DEF OnTrajectory
    <3> QED
      BY <2>1, <3>1, <3>2, BaseRowsAdjacent
  <2> QED
    BY <2>2, <2>3
<1>2. CASE Base!Play /\ ~moving
  BY <1>0, <1>2 DEF Base!Play, BaseOwned
<1>3. CASE ~Base!Play
  <2>1. goal' = goal
    BY <1>0, <1>3 DEF Base!Next, Base!Message, Base!MessageRefused, Base!HaveJoints, Base!Spawn,
         Base!Worker, Base!Generate, Base!SetMoving, Base!ResetCount, Base!Timer, Base!ReadGoals,
         Base!GoalsKnown, Base!Count, Base!End, Base!EndReset, Base!Controller, Base!Grant,
         Base!SeenAtRest, Base!Disable, Base!MoveElsewhere, Base!vars, Base!timerVars
  <2> QED
    BY <1>0, <2>1
<1> QED
  BY <1>1, <1>2, <1>3

\* The joint never jumps: whatever the modules that had it before have done with it, the
\* base module moves it by at most one row's distance, over rows its trajectory has.
THEOREM BaseNeverJumps ==
  ASSUME BaseAssumed, Exclusive, ~Overlap
  PROVE  Base!Spec => Base!NoJump
<1>1. Base!Init => BaseOwned /\ OnTrajectory
  BY DEF Base!Init, BaseOwned, OnTrajectory
<1>2. BaseBounded /\ BaseOwned /\ OnTrajectory /\ [Base!Next]_(Base!vars)
        => BaseOwned' /\ OnTrajectory'
  BY BaseOwnedNext, OnTrajectoryNext
<1>3. BaseBounded /\ BaseOwned /\ OnTrajectory /\ [Base!Next]_(Base!vars)
        => [pc = "play" => Base!RowExists /\ (goal' - goal \in {0, 1} \/ goal - goal' \in {0, 1})
           ]_(Base!vars)
  BY BaseStep DEF BaseBounded, CountBounded, Base!RowExists
<1> QED
  BY <1>1, <1>2, <1>3, BaseAlwaysBounded, PTL DEF Base!Spec, Base!NoJump
============================================================================
