------------------------ MODULE FootballBridgeProofs ------------------------
(***************************************************************************)
(* Proofs about the bridge and what it meets in the manager, for queues of *)
(* every depth, with and without automatic get-ups, under the assumption   *)
(* that no command falls into the microseconds of ~Overlap.                *)
(***************************************************************************)
EXTENDS FootballBridge, SequenceTheorems, TLAPS

Commands == {"start", "stop"}
LastIs(queue, message) == queue # <<>> /\ queue[Len(queue)] = message

\* The gait will not be walking once all commands are taken: the queue may lose any
\* message but the last, and that is a stop.
Told == (commands = <<>> /\ gait # "walk") \/ LastIs(commands, "stop")

\* Why a stop can be relied on: the bridge says what it has sent ...
BelievesRight ==
  /\ ~active /\ thread # "stop" => Told
  /\ estop => ~active /\ Told

\* ... and a module without the joints rests, so that nothing is missed when it
\* drops a command, and nothing is left over when it gets the joints back.
ModulesRest ==
  /\ owner # "walking" => gait = "rest"
  /\ owner # "action" => ~playing
  /\ phase = "disable" => gait = "rest" /\ ~playing
  /\ phase = "assign" => owner \in {"none", target}
  /\ phase = "wait" => owner # "none"

QueueTypes ==
  /\ commands \in Seq(Commands)
  /\ {estop, active, playing} \subseteq BOOLEAN

IInv == QueueTypes /\ BelievesRight /\ ModulesRest

USE DepthAssumption

\* Whatever a queue had to lose, its last message is the one just sent.
LEMMA KeepLast ==
  ASSUME NEW S, NEW queue \in Seq(S), NEW message \in S, NEW depth \in Nat \ {0}
  PROVE  /\ Keep(depth, queue, message) \in Seq(S)
         /\ LastIs(Keep(depth, queue, message), message)
<1>1. CASE Len(queue) < depth
  BY <1>1 DEF Keep, LastIs
<1>2. CASE ~(Len(queue) < depth)
  <2>1. queue # <<>>
    BY <1>2
  <2>2. Tail(queue) \in Seq(S)
    BY <2>1
  <2> DEFINE kept == Append(Tail(queue), message)
  <2>3. kept \in Seq(S) /\ Len(kept) = Len(Tail(queue)) + 1
    BY <2>2
  <2>4. kept[Len(kept)] = message /\ kept # <<>>
    BY <2>2, <2>3
  <2>5. Keep(depth, queue, message) = kept
    BY <1>2 DEF Keep
  <2> HIDE DEF kept
  <2> QED
    BY <2>3, <2>4, <2>5 DEF LastIs
<1> QED
  BY <1>1, <1>2

\* Taking a message from a queue leaves its last message, unless it was the only one.
LEMMA TakeFirst ==
  ASSUME NEW S, NEW queue \in Seq(S), queue # <<>>
  PROVE  /\ Tail(queue) \in Seq(S)
         /\ Tail(queue) = <<>> => LastIs(queue, Head(queue))
         /\ \A m : LastIs(queue, m) /\ Tail(queue) # <<>> => LastIs(Tail(queue), m)
<1>1. Tail(queue) \in Seq(S) /\ Len(Tail(queue)) = Len(queue) - 1
  OBVIOUS
<1>2. ASSUME Tail(queue) = <<>> PROVE LastIs(queue, Head(queue))
  <2>1. Len(Tail(queue)) = 0
    BY <1>1, <1>2, EmptySeq
  <2>2. Len(queue) \in Nat /\ Len(queue) # 0
    BY EmptySeq
  <2>3. Len(queue) = 1
    <3> DEFINE n == Len(queue)
               t == Len(Tail(queue))
    <3>1. n \in Nat /\ n # 0 /\ t = n - 1 /\ t = 0
      BY <1>1, <2>1, <2>2
    <3> HIDE DEF n, t
    <3>2. n = 1
      BY <3>1
    <3> QED
      BY <3>2 DEF n
  <2> QED
    BY <2>3 DEF LastIs
<1>3. ASSUME NEW m, LastIs(queue, m), Tail(queue) # <<>> PROVE LastIs(Tail(queue), m)
  BY <1>1, <1>3 DEF LastIs
<1> QED
  BY <1>1, <1>2, <1>3

\* A message of either kind keeps the commands a queue of commands and is its last.
LEMMA Sent ==
  ASSUME QueueTypes, NEW c \in Commands
  PROVE  /\ Keep(CommandDepth, commands, c) \in Seq(Commands)
         /\ LastIs(Keep(CommandDepth, commands, c), c)
  BY KeepLast DEF QueueTypes

\* The client's calls.
LEMMA CallStep == IInv /\ Call => IInv'
<1> SUFFICES ASSUME IInv, Call PROVE IInv'
  OBVIOUS
<1> USE DEF IInv, QueueTypes, BelievesRight, ModulesRest, Told, moduleVars
<1> DEFINE h == Head(program)
<1>1. ASSUME h \in Commands, WalkingCommand(h) PROVE IInv'
  <2>1. CASE estop
    BY <1>1, <2>1 DEF WalkingCommand, Call, LastIs
  <2>2. CASE ~estop
    <3>1. commands' \in Seq(Commands) /\ LastIs(commands', h)
      BY <1>1, <2>2, Sent DEF WalkingCommand
    <3>2. active' = (h = "start") /\ estop' = estop
      BY <1>1, <2>2 DEF WalkingCommand
    <3>3. h = "start" \/ h = "stop"
      BY <1>1 DEF Commands
    <3>4. BelievesRight'
      BY <2>2, <3>1, <3>2, <3>3
    <3>5. QueueTypes'
      BY <3>1, <3>2, <3>3 DEF Call
    <3> QED
      BY <3>4, <3>5 DEF Call
  <2> QED
    BY <2>1, <2>2
<1>2. ASSUME UNCHANGED <<bridgeVars, commands>> PROVE IInv'
  BY <1>2 DEF Call, bridgeVars, LastIs
<1> QED
  BY <1>1, <1>2 DEF Call, Commands, SetModule, PlayPage, SetWalkingParams, Wait

\* An emergency stop, a button press and the get-up thread's stop send a stop.
LEMMA StopStep ==
  IInv /\ (Estop \/ Button \/ ThreadStop) => IInv'
<1> SUFFICES ASSUME IInv, Estop \/ Button \/ ThreadStop PROVE IInv'
  OBVIOUS
<1> USE DEF IInv, QueueTypes, BelievesRight, ModulesRest, Told
<1>1. commands' = Keep(CommandDepth, commands, "stop")
  BY DEF Estop, Button, ThreadStop
<1>2. commands' \in Seq(Commands) /\ LastIs(commands', "stop")
  BY <1>1, Sent DEF Commands
<1>3. BelievesRight'
  <2>1. Told'
    BY <1>2
  <2>2. estop' => ~active' \/ UNCHANGED <<estop, active>>
    BY DEF Estop, Button, ThreadStop, bridgeVars
  <2> QED
    BY <2>1, <2>2
<1>4. ModulesRest'
  BY DEF Estop, Button, ThreadStop, moduleVars, bridgeVars
<1> QED
  BY <1>2, <1>3, <1>4 DEF Estop, Button, ThreadStop, moduleVars, bridgeVars

\* A module takes a command, or drops it.
LEMMA DeliverStep ==
  ASSUME ~Overlap, IInv, DeliverCommand
  PROVE  IInv'
<1> USE DEF IInv, QueueTypes, BelievesRight, ModulesRest
<1> DEFINE h == Head(commands)
<1>1. /\ commands' \in Seq(Commands)
      /\ commands' = <<>> => LastIs(commands, h)
      /\ LastIs(commands, "stop") /\ commands' # <<>> => LastIs(commands', "stop")
  BY TakeFirst DEF DeliverCommand
<1>2. /\ owner # "walking" => gait' = gait
      /\ h = "stop" /\ gait # "walk" => gait' = gait
      /\ h = "stop" /\ gait = "walk" /\ owner = "walking" => gait' = "halt"
  BY DEF DeliverCommand, Obey
<1>3. ASSUME Told PROVE Told'
  <2>1. LastIs(commands, "stop")
    BY <1>3 DEF DeliverCommand, Told
  <2>2. ASSUME commands' = <<>> PROVE gait' # "walk"
    <3>1. h = "stop"
      BY <1>1, <2>1, <2>2 DEF LastIs
    <3> QED
      BY <3>1, <1>2
  <2> QED
    BY <1>1, <2>1, <2>2 DEF Told
<1>4. BelievesRight'
  BY <1>3 DEF DeliverCommand, bridgeVars
<1>5. ModulesRest'
  BY <1>2 DEF DeliverCommand, moduleVars
<1> QED
  BY <1>1, <1>4, <1>5 DEF DeliverCommand, bridgeVars

\* The hand-over: the one step that takes gait = "walk" back is a stop.
LEMMA SetterStep == IInv /\ Setter => IInv'
<1> SUFFICES ASSUME IInv, Setter PROVE IInv'
  OBVIOUS
<1> USE DEF IInv, QueueTypes, BelievesRight, ModulesRest, Told, LastIs
<1>1. ASSUME NEW m, Accept(m) PROVE IInv'
  BY <1>1 DEF Accept, bridgeVars
<1>2. CASE SeenAtRest
  BY <1>2 DEF SeenAtRest, bridgeVars
<1>3. CASE Disable
  BY <1>3 DEF Disable, bridgeVars
<1>4. CASE Assign
  BY <1>4 DEF Assign, bridgeVars
<1> QED
  BY <1>1, <1>2, <1>3, <1>4 DEF Setter, AcceptTopic, AcceptService

\* Every other step.
LEMMA OtherStep ==
  ASSUME ~Overlap, IInv,
         \/ Begin \/ TorqueOn \/ Fallen \/ GaitHalts \/ DeliverPage \/ PageEnds
         \/ ThreadTopic \/ ThreadService \/ ThreadPage \/ ThreadStand \/ ThreadClear
         \/ UNCHANGED vars
  PROVE  IInv'
<1> USE DEF IInv, QueueTypes, BelievesRight, ModulesRest, Told, LastIs,
            bridgeVars, moduleVars
<1>1. CASE Begin
  BY <1>1 DEF Begin
<1>2. CASE TorqueOn
  BY <1>2 DEF TorqueOn
<1>3. CASE Fallen
  BY <1>3 DEF Fallen
<1>4. CASE GaitHalts
  BY <1>4 DEF GaitHalts
<1>5. CASE DeliverPage
  BY <1>5 DEF DeliverPage
<1>6. CASE PageEnds
  BY <1>6 DEF PageEnds
<1>7. CASE ThreadTopic \/ ThreadService \/ ThreadPage \/ ThreadStand \/ ThreadClear
  BY <1>7 DEF ThreadTopic, ThreadService, ThreadPage, ThreadStand, ThreadClear
<1>8. CASE UNCHANGED vars
  BY <1>8 DEF vars
<1> QED
  BY <1>1, <1>2, <1>3, <1>4, <1>5, <1>6, <1>7, <1>8

\* The invariant holds of every reachable state.
LEMMA InvariantHolds ==
  ASSUME ~Overlap
  PROVE  Spec => []IInv
<1>1. Init => IInv
  <2> SUFFICES ASSUME Init PROVE IInv
    OBVIOUS
  <2>1. QueueTypes
    BY EmptySeq DEF Init, QueueTypes
  <2>2. BelievesRight
    BY DEF Init, BelievesRight, Told
  <2>3. ModulesRest
    BY DEF Init, ModulesRest
  <2> QED
    BY <2>1, <2>2, <2>3 DEF IInv
<1>2. IInv /\ [Next]_vars => IInv'
  BY CallStep, StopStep, DeliverStep, SetterStep, OtherStep
     DEF Next, GetupThread, Receivers
<1> QED
  BY <1>1, <1>2, PTL DEF Spec

\* onEstop(): once its "stop" has been taken the gait does not walk, and no start
\* under way, no queue that overflows and no hand-over of the body undoes that.
THEOREM EstopEffective ==
  ASSUME ~Overlap
  PROVE  Spec => []EstopStopsWalking
<1>1. IInv => EstopStopsWalking
  BY DEF IInv, BelievesRight, Told, LastIs, EstopStopsWalking
<1> QED
  BY <1>1, InvariantHolds, PTL

\* walking_active_ is never false while the robot walks, but for commands and a
\* get-up thread that are under way: falls are looked for whenever they can happen. And
\* pages and the gait never move the body at the same time.
THEOREM BeliefRight ==
  ASSUME ~Overlap
  PROVE  Spec => []BodyAsBelieved
<1>1. IInv => AtRestAsBelieved
  BY DEF IInv, BelievesRight, Told, LastIs, AtRestAsBelieved
<1>2. IInv => PlayingAtRest
  BY DEF IInv, ModulesRest, PlayingAtRest
<1> QED
  BY <1>1, <1>2, InvariantHolds, PTL DEF BodyAsBelieved
=============================================================================
