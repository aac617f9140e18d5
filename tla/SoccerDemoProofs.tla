-------------------------- MODULE SoccerDemoProofs --------------------------
(***************************************************************************)
(* Proofs, for waits of any length, any number of falls and of messages,   *)
(* that the soccer demo's one thread keeps page and gait apart, leaves no  *)
(* game behind and, on one visit, only gets a robot up that lies.          *)
(***************************************************************************)
EXTENDS SoccerDemo, TLAPS

USE WaitAssumption, BoundsAssumption, UserAssumption

----------------------------------------------------------------------------

LEMMA TypeInit == Init => TypeOK
<1>1. Init => FlagsOK
  BY DEF Init, FlagsOK
<1>2. Init => CountsOK
  BY DEF Init, CountsOK
<1>3. Init => StatesOK
  BY DEF Init, StatesOK
<1> QED
  BY <1>1, <1>2, <1>3 DEF TypeOK

LEMMA FlagsNext == TypeOK /\ [Next]_vars => FlagsOK'
<1> SUFFICES ASSUME TypeOK, [Next]_vars PROVE FlagsOK'
  OBVIOUS
<1> USE DEF TypeOK, FlagsOK, nodeVars, flagVars, ballVars, robotVars, senseVars, countVars
<1>1. CASE NothingToApply \/ LeaveSoccer
  BY <1>1 DEF NothingToApply, LeaveSoccer
<1>2. CASE EnterSoccer
  BY <1>2 DEF EnterSoccer, StartSoccer, Play
<1>3. CASE Ready
  BY <1>3 DEF Ready
<1>16. CASE Applied
  BY <1>16 DEF Applied
<1>17. CASE NoProcess
  BY <1>17 DEF NoProcess
<1>4. CASE NoFlags
  BY <1>4 DEF NoFlags, Process
<1>5. CASE StartFollowing
  BY <1>5 DEF StartFollowing, GaitStarts
<1>6. CASE StopFollowing
  BY <1>6 DEF StopFollowing
<1>7. CASE Ball
  BY <1>7 DEF Ball, Follow, Track, GaitStops
<1>8. CASE Restarting \/ NothingNear
  BY <1>8 DEF Restarting, NothingNear, StartSoccer, Play
<1>9. CASE BallNear \/ Kick
  BY <1>9 DEF BallNear, Kick, GaitStops, Play
<1>10. CASE Fallen \/ GotUp
  BY <1>10 DEF Fallen, GotUp, Play
<1>11. CASE EndSpin
  BY <1>11 DEF EndSpin, Sensed
<1>12. CASE StartCommand
  BY <1>12 DEF StartCommand, Message, StartSoccer, Play
<1>13. CASE StopCommand \/ ChooseSoccer \/ ChooseReady
  BY <1>13 DEF StopCommand, ChooseSoccer, ChooseReady, Message
<1>14. CASE Fall \/ PageEnds
  BY <1>14 DEF Fall, PageEnds
<1>15. CASE UNCHANGED vars
  BY <1>15 DEF vars
<1> QED
  BY <1>1, <1>2, <1>3, <1>4, <1>5, <1>6, <1>7, <1>8, <1>9, <1>10, <1>11, <1>12, <1>13,
     <1>14, <1>15, <1>16, <1>17 DEF Next, Loop, User

LEMMA CountsNext == TypeOK /\ [Next]_vars => CountsOK'
<1> SUFFICES ASSUME TypeOK, [Next]_vars PROVE CountsOK'
  OBVIOUS
<1> USE DEF TypeOK, CountsOK, nodeVars, flagVars, ballVars, robotVars, senseVars, countVars
<1>1. CASE NothingToApply \/ LeaveSoccer
  BY <1>1 DEF NothingToApply, LeaveSoccer
<1>2. CASE EnterSoccer
  BY <1>2 DEF EnterSoccer, StartSoccer, Play
<1>3. CASE Ready \/ Applied \/ NoProcess
  BY <1>3 DEF Ready, Applied, NoProcess
<1>4. CASE NoFlags
  BY <1>4 DEF NoFlags, Process
<1>5. CASE StartFollowing
  BY <1>5 DEF StartFollowing, GaitStarts
<1>6. CASE StopFollowing
  BY <1>6 DEF StopFollowing
<1>7. CASE Ball
  BY <1>7 DEF Ball, Follow, Track, GaitStops
<1>8. CASE Restarting \/ NothingNear
  BY <1>8 DEF Restarting, NothingNear, StartSoccer, Play
<1>9. CASE BallNear \/ Kick
  BY <1>9 DEF BallNear, Kick, GaitStops, Play
<1>10. CASE Fallen \/ GotUp
  BY <1>10 DEF Fallen, GotUp, Play
<1>11. CASE EndSpin
  BY <1>11 DEF EndSpin, Sensed
<1>12. CASE StartCommand
  BY <1>12 DEF StartCommand, Message, StartSoccer, Play
<1>13. CASE StopCommand \/ ChooseSoccer \/ ChooseReady
  BY <1>13 DEF StopCommand, ChooseSoccer, ChooseReady, Message
<1>14. CASE Fall \/ PageEnds
  BY <1>14 DEF Fall, PageEnds
<1>15. CASE UNCHANGED vars
  BY <1>15 DEF vars
<1> QED
  BY <1>1, <1>2, <1>3, <1>4, <1>5, <1>6, <1>7, <1>8, <1>9, <1>10, <1>11, <1>12, <1>13,
     <1>14, <1>15 DEF Next, Loop, User

LEMMA StatesNext == TypeOK /\ [Next]_vars => StatesOK'
<1> SUFFICES ASSUME TypeOK, [Next]_vars PROVE StatesOK'
  OBVIOUS
<1> USE DEF TypeOK, StatesOK, nodeVars, flagVars, ballVars, robotVars, senseVars, countVars
<1>1. CASE NothingToApply \/ LeaveSoccer
  BY <1>1 DEF NothingToApply, LeaveSoccer
<1>2. CASE EnterSoccer
  BY <1>2 DEF EnterSoccer, StartSoccer, Play
<1>3. CASE Ready \/ Applied \/ NoProcess
  BY <1>3 DEF Ready, Applied, NoProcess
<1>4. CASE NoFlags
  BY <1>4 DEF NoFlags, Process
<1>5. CASE StartFollowing
  BY <1>5 DEF StartFollowing, GaitStarts
<1>6. CASE StopFollowing
  BY <1>6 DEF StopFollowing
<1>7. CASE Ball
  BY <1>7 DEF Ball, Follow, Track, GaitStops
<1>8. CASE Restarting \/ NothingNear
  BY <1>8 DEF Restarting, NothingNear, StartSoccer, Play
<1>9. CASE BallNear \/ Kick
  BY <1>9 DEF BallNear, Kick, GaitStops, Play
<1>10. CASE Fallen \/ GotUp
  BY <1>10 DEF Fallen, GotUp, Play
<1>11. CASE EndSpin
  BY <1>11 DEF EndSpin, Sensed
<1>12. CASE StartCommand
  BY <1>12 DEF StartCommand, Message, StartSoccer, Play
<1>13. CASE StopCommand \/ ChooseSoccer \/ ChooseReady
  BY <1>13 DEF StopCommand, ChooseSoccer, ChooseReady, Message
<1>14. CASE Fall \/ PageEnds
  BY <1>14 DEF Fall, PageEnds
<1>15. CASE UNCHANGED vars
  BY <1>15 DEF vars
<1> QED
  BY <1>1, <1>2, <1>3, <1>4, <1>5, <1>6, <1>7, <1>8, <1>9, <1>10, <1>11, <1>12, <1>13,
     <1>14, <1>15 DEF Next, Loop, User

LEMMA TypeNext == TypeOK /\ [Next]_vars => TypeOK'
BY FlagsNext, CountsNext, StatesNext DEF TypeOK

\* Every variable keeps its type.
THEOREM TypeCorrect == Spec => []TypeOK
BY TypeInit, TypeNext, PTL DEF Spec

----------------------------------------------------------------------------
(* The body belongs to the walking module only after a page was waited for.*)

BodyInv ==
  /\ body = "walking" => page = "none"
  /\ gait => body = "walking"

LEMMA BodyNext == TypeOK /\ BodyInv /\ [Next]_vars => BodyInv'
<1> SUFFICES ASSUME TypeOK, BodyInv, [Next]_vars PROVE BodyInv'
  OBVIOUS
<1> USE DEF TypeOK, BodyInv, robotVars
<1>1. CASE NothingToApply \/ LeaveSoccer \/ Ready \/ Applied \/ NoProcess \/ NoFlags
  BY <1>1 DEF NothingToApply, LeaveSoccer, Ready, Applied, NoProcess, NoFlags
<1>2. CASE EnterSoccer \/ Restarting \/ StartCommand
  BY <1>2 DEF EnterSoccer, Restarting, StartCommand, StartSoccer, Play
<1>3. CASE StartFollowing
  BY <1>3 DEF StartFollowing, GaitStarts
<1>4. CASE StopFollowing
  BY <1>4 DEF StopFollowing
<1>5. CASE Ball
  BY <1>5 DEF Ball, Follow, GaitStops
<1>6. CASE NothingNear \/ GotUp
  BY <1>6 DEF NothingNear, GotUp
<1>12. CASE BallNear
  <2>1. gait' => gait
    BY <1>12 DEF BallNear, GaitStops, FlagsOK
  <2> QED
    BY <1>12, <2>1 DEF BallNear
<1>10. CASE Kick
  BY <1>10 DEF Kick, Play
<1>11. CASE Fallen
  BY <1>11 DEF Fallen, Play
<1>7. CASE EndSpin \/ StopCommand \/ ChooseSoccer \/ ChooseReady
  BY <1>7 DEF EndSpin, StopCommand, ChooseSoccer, ChooseReady
<1>8. CASE Fall \/ PageEnds
  BY <1>8 DEF Fall, PageEnds
<1>9. CASE UNCHANGED vars
  BY <1>9 DEF vars
<1> QED
  BY <1>1, <1>2, <1>3, <1>4, <1>5, <1>6, <1>7, <1>8, <1>9, <1>10, <1>11, <1>12 DEF Next, Loop, User

\* Whatever is lost, and whenever the robot falls or the user speaks, no page
\* plays while the gait runs, and the gait runs only in its owner.
THEOREM PageAndGaitApart == Spec => []PageOrGait
<1>1. Init => BodyInv
  BY DEF Init, BodyInv
<1>2. BodyInv => PageOrGait
  BY DEF BodyInv, PageOrGait
<1> QED
  BY <1>1, <1>2, TypeCorrect, BodyNext, PTL DEF Spec

----------------------------------------------------------------------------
(* Past the guard of process() the demo is enabled: only the head of the   *)
(* loop disables it.                                                       *)

AtWork == pc \in {"readying", "applied", "ball", "stand", "kick", "getup"} => enable

GameInv == AtWork /\ LeavesNothing

LEMMA GameNext == TypeOK /\ GameInv /\ [Next]_vars => GameInv'
<1> SUFFICES ASSUME TypeOK, GameInv, [Next]_vars PROVE GameInv'
  OBVIOUS
<1> USE DEF TypeOK, GameInv, AtWork, LeavesNothing, senseVars, flagVars
<1>1. CASE NothingToApply \/ Ready \/ Applied \/ NoProcess
  BY <1>1 DEF NothingToApply, Ready, Applied, NoProcess, ballVars
<1>8. CASE LeaveSoccer
  BY <1>8 DEF LeaveSoccer
<1>2. CASE EnterSoccer \/ Restarting \/ StartCommand
  BY <1>2 DEF EnterSoccer, Restarting, StartCommand, StartSoccer, ballVars
<1>3. CASE NoFlags \/ StartFollowing \/ StopFollowing \/ Ball
  BY <1>3 DEF NoFlags, StartFollowing, StopFollowing, Ball, Process
<1>4. CASE NothingNear \/ BallNear \/ Kick \/ Fallen \/ GotUp
  BY <1>4 DEF NothingNear, BallNear, Kick, Fallen, GotUp, ballVars
<1>5. CASE EndSpin \/ StopCommand \/ ChooseSoccer \/ ChooseReady
  BY <1>5 DEF EndSpin, StopCommand, ChooseSoccer, ChooseReady, ballVars
<1>6. CASE Fall \/ PageEnds
  BY <1>6 DEF Fall, PageEnds, ballVars
<1>7. CASE UNCHANGED vars
  BY <1>7 DEF vars, ballVars
<1> QED
  BY <1>1, <1>2, <1>3, <1>4, <1>5, <1>6, <1>7, <1>8 DEF Next, Loop, User

\* A disabled demo has no flag left that would start or stop a game later.
THEOREM NothingLeftBehind == Spec => []LeavesNothing
<1>1. Init => GameInv
  BY DEF Init, GameInv, AtWork, LeavesNothing
<1>2. GameInv => LeavesNothing
  BY DEF GameInv
<1> QED
  BY <1>1, <1>2, TypeCorrect, GameNext, PTL DEF Spec

----------------------------------------------------------------------------
(* On one visit the IMU is listened to as long as the demo is enabled, so  *)
(* what it said of a fall is true wherever it is used: a robot only stands *)
(* up by a page that is waited for, and the IMU is asked before the next   *)
(* process().                                                              *)

Listening ==
  /\ enable => imu
  /\ apply /\ status = "ready" => imu

SaidTrue ==
  /\ page = "getup" => pc = "getup" /\ posture = "fallen"
  /\ stand = "fallen" =>
       posture = "fallen" \/ (enable /\ (pc \in {"getup", "spin"} \/ (pc = "readying" /\ back = "spin")))

FallInv == GameInv /\ Listening /\ SaidTrue

LEMMA ListeningNext ==
  ASSUME TypeOK, GameInv, Listening, [Next]_vars, ~Reenter PROVE Listening'
<1> USE DEF TypeOK, GameInv, AtWork, Listening, senseVars, nodeVars
<1>1. CASE NothingToApply \/ LeaveSoccer \/ Ready \/ Applied \/ NoProcess
  BY <1>1 DEF NothingToApply, LeaveSoccer, Ready, Applied, NoProcess
<1>2. CASE EnterSoccer \/ Restarting \/ StartCommand
  BY <1>2 DEF EnterSoccer, Restarting, StartCommand, StartSoccer
<1>3. CASE NoFlags \/ StartFollowing \/ StopFollowing \/ Ball
  BY <1>3 DEF NoFlags, StartFollowing, StopFollowing, Ball, Process
<1>4. CASE NothingNear \/ BallNear \/ Kick \/ Fallen \/ GotUp
  BY <1>4 DEF NothingNear, BallNear, Kick, Fallen, GotUp
<1>5. CASE EndSpin \/ StopCommand \/ ChooseSoccer \/ ChooseReady
  BY <1>5 DEF EndSpin, StopCommand, ChooseSoccer, ChooseReady
<1>6. CASE Fall \/ PageEnds \/ UNCHANGED vars
  BY <1>6 DEF Fall, PageEnds, vars
<1> QED
  BY <1>1, <1>2, <1>3, <1>4, <1>5, <1>6 DEF Next, Loop, User

LEMMA SaidTrueNext ==
  ASSUME TypeOK, GameInv, Listening, SaidTrue, [Next]_vars PROVE SaidTrue'
<1> USE DEF TypeOK, GameInv, AtWork, SaidTrue, senseVars, robotVars
<1>1. CASE NothingToApply \/ LeaveSoccer \/ Ready \/ Applied \/ NoProcess
  BY <1>1 DEF NothingToApply, LeaveSoccer, Ready, Applied, NoProcess
<1>2. CASE EnterSoccer \/ Restarting \/ StartCommand
  BY <1>2 DEF EnterSoccer, Restarting, StartCommand, Message, StartSoccer, Play
<1>3. CASE NoFlags \/ StartFollowing \/ StopFollowing \/ Ball
  BY <1>3 DEF NoFlags, StartFollowing, StopFollowing, Ball, Process
<1>4. CASE NothingNear \/ BallNear \/ Kick
  BY <1>4 DEF NothingNear, BallNear, Kick, Play
<1>5. CASE Fallen \/ GotUp
  BY <1>5 DEF Fallen, GotUp, Play
<1>6. CASE EndSpin
  <2>1. stand' = "fallen" => posture = "fallen" \/ (~enable /\ stand = "fallen")
    BY <1>6 DEF EndSpin, Sensed, Listening, FlagsOK, StatesOK
  <2> QED
    BY <1>6, <2>1 DEF EndSpin
<1>7. CASE StopCommand \/ ChooseSoccer \/ ChooseReady
  BY <1>7 DEF StopCommand, ChooseSoccer, ChooseReady
<1>8. CASE Fall \/ PageEnds
  BY <1>8 DEF Fall, PageEnds
<1>9. CASE UNCHANGED vars
  BY <1>9 DEF vars
<1> QED
  BY <1>1, <1>2, <1>3, <1>4, <1>5, <1>6, <1>7, <1>8, <1>9 DEF Next, Loop, User

\* On one visit to the soccer demo no get-up page is played by a standing robot,
\* late as the demo looks at what the IMU has said.
THEOREM GetupOnlyWhenFallen == ASSUME ~Reenter PROVE Spec => []GetupOnlyFallen
<1>1. Init => FallInv
  BY DEF Init, FallInv, GameInv, AtWork, LeavesNothing, Listening, SaidTrue
<1>2. TypeOK /\ FallInv /\ [Next]_vars => FallInv'
  BY GameNext, ListeningNext, SaidTrueNext DEF FallInv
<1>3. FallInv => GetupOnlyFallen
  BY DEF FallInv, SaidTrue, GetupOnlyFallen
<1> QED
  BY <1>1, <1>2, <1>3, TypeCorrect, PTL DEF Spec
=============================================================================
