------------------------- MODULE ServoWritesProofs -------------------------
(***************************************************************************)
(* Proof, for every set of joints and gains and every number of restarts,  *)
(* that a gain that is remembered as written is in the servo or on its     *)
(* way, while mode messages keep out of the bus half of a cycle. What the  *)
(* code does to them otherwise is in the README (known violations).        *)
(***************************************************************************)
EXTENDS ServoWrites, TLAPS

USE DevicesAssumption, NoneAssumption, MessagesAssumption, FileGainAssumption,
    BoundsAssumption, ClientsAssumption

----------------------------------------------------------------------------
(* Control and gains.                                                      *)

\* The variables the argument about gains needs, typed.
GainsTyped ==
  /\ mode \in Modes /\ seen \in Modes
  /\ timer \in {"start", "again", "write", "request", "pass", "end", "off"}
  /\ using \in BOOLEAN /\ stop \in BOOLEAN
  /\ main \in {"idle", "join", "init", "start"}
  /\ queue.kind = "mode" => queue.mode \in Modes
  /\ gain \in [Joints -> Gains]
  /\ gainList \in [Joints -> Gains \cup {None}]
  /\ servoGain \in [Joints -> Gains]

NoGainsWait == \A j \in Joints : gainList[j] = None

\* In motion mode the lists have been emptied before the modules fill them:
\* the one way past a full list is a switch in the middle of a direct cycle.
EmptyBeforePass ==
  /\ mode = "motion" =>
       \/ timer \in {"start", "end", "off"}
       \/ timer = "write" /\ seen = "motion"
       \/ NoGainsWait
  /\ main \in {"init", "start"} => NoGainsWait

\* An entry that waits is the gain remembered, and without one the servo has it.
GainsBacked ==
  \A j \in Joints :
    /\ gainList[j] # None => gainList[j] = gain[j]
    /\ main \in {"idle", "join"} /\ gainList[j] = None => servoGain[j] = gain[j]

GInv == GainsTyped /\ TimerOff /\ PortFreeToWrite /\ EmptyBeforePass /\ GainsBacked

LEMMA GainsInit == Init => GInv
<1> SUFFICES ASSUME Init PROVE GInv
  OBVIOUS
<1>1. gain \in [Joints -> Gains] /\ servoGain \in [Joints -> Gains]
  BY DEF Init
<1>2. gainList \in [Joints -> Gains \cup {None}]
  BY DEF Init
<1>3. GainsTyped
  BY <1>1, <1>2 DEF Init, GainsTyped, Modes, Ready
<1>4. TimerOff /\ PortFreeToWrite
  BY DEF Init, TimerOff, PortFreeToWrite
<1>5. EmptyBeforePass /\ GainsBacked
  BY DEF Init, EmptyBeforePass, GainsBacked, NoGainsWait
<1> QED
  BY <1>3, <1>4, <1>5 DEF GInv

LEMMA GainsNext == ~Overlap /\ GInv /\ [Next]_vars => GInv'
<1> SUFFICES ASSUME ~Overlap, GInv, [Next]_vars PROVE GInv'
  OBVIOUS
<1> USE DEF GInv, GainsTyped, TimerOff, PortFreeToWrite, EmptyBeforePass,
            GainsBacked, NoGainsWait, Modes
<1>1. CASE TimerThread
  <2>1. CASE ReceiveMotion
    BY <2>1 DEF ReceiveMotion, gainVars, queueVars, mainVars
  <2>2. CASE NotMotion
    BY <2>2 DEF NotMotion, busVars, gainVars, queueVars, mainVars
  <2>3. CASE ReceiveDirect
    BY <2>3 DEF ReceiveDirect, gainVars, queueVars, mainVars
  <2>4. CASE NotDirect
    BY <2>4 DEF NotDirect, busVars, gainVars, queueVars, mainVars
  <2>5. CASE Transmit
    <3>1. ~using
      BY <2>5 DEF Transmit
    <3>2. CASE seen = "direct"
      <4>1. gainList' = gainList /\ servoGain' = servoGain
        BY <2>5, <3>2 DEF Transmit
      <4> QED
        BY <2>5, <3>2, <4>1 DEF Transmit, queueVars, mainVars
    <3>3. CASE seen = "motion"
      <4>1. NoGainsWait'
        BY <2>5, <3>3 DEF Transmit
      <4>2. servoGain' \in [Joints -> Gains]
        BY <2>5, <3>1, <3>3 DEF Transmit
      <4>3. \A j \in Joints : servoGain'[j] = gain[j]
        BY <2>5, <3>1, <3>3 DEF Transmit
      <4>4. gainList' \in [Joints -> Gains \cup {None}]
        BY <2>5, <3>3 DEF Transmit
      <4> QED
        BY <2>5, <4>1, <4>2, <4>3, <4>4 DEF Transmit, queueVars, mainVars
    <3> QED
      BY <3>2, <3>3
  <2>6. CASE Request
    BY <2>6 DEF Request, gainVars, queueVars, mainVars
  <2>7. CASE ModulePass
    <3>1. NoGainsWait
      BY <2>7 DEF ModulePass
    <3> DEFINE changed == {j \in Joints : asked'[j] \notin {None, gain[j]}}
    <3>2. /\ gain' = [j \in Joints |-> IF j \in changed THEN asked'[j] ELSE gain[j]]
          /\ gainList' = [j \in Joints |->
               IF j \in changed /\ gainList[j] = None THEN asked'[j] ELSE gainList[j]]
          /\ \A j \in changed : asked'[j] \in Gains
      BY <2>7 DEF ModulePass
    <3> HIDE DEF changed
    <3>3. gain' \in [Joints -> Gains] /\ gainList' \in [Joints -> Gains \cup {None}]
      BY <3>2
    <3>4. main \in {"idle", "join"}
      BY <2>7 DEF ModulePass
    <3>5. GainsBacked'
      BY <2>7, <3>1, <3>2 DEF ModulePass, busVars, mainVars
    <3> QED
      BY <2>7, <3>3, <3>4, <3>5 DEF ModulePass, busVars, queueVars, mainVars
  <2>8. CASE NoPass
    BY <2>8 DEF NoPass, busVars, gainVars, queueVars, mainVars
  <2>9. CASE NextCycle
    BY <2>9 DEF NextCycle, busVars, gainVars, queueVars, mainVars
  <2> QED
    BY <1>1, <2>1, <2>2, <2>3, <2>4, <2>5, <2>6, <2>7, <2>8, <2>9 DEF TimerThread
<1>2. CASE QueueThread
  <2>1. CASE \E b \in Batches : ReceiveItems(b)
    BY <2>1 DEF ReceiveItems, Write, QueueStep, busVars, gainVars
  <2>2. CASE \E w \in TableWrites : WriteTable(w)
    BY <2>2 DEF WriteTable, QueueStep, busVars, gainVars, queueVars
  <2>3. CASE \E m \in Modes : SwitchBus(m)
    BY <2>3 DEF SwitchBus, Switch, QueueStep, gainVars
  <2>4. CASE Serve
    <3>1. CASE \E d \in Devices : EnterItem(d)
      BY <3>1 DEF EnterItem, QueueStep, busVars, gainVars
    <3>2. CASE EndItems
      BY <3>2 DEF EndItems, Ready, QueueStep, busVars, gainVars
    <3>3. CASE SwitchMode
      BY <3>3 DEF SwitchMode, Ready, QueueStep, busVars, gainVars
    <3> QED
      BY <2>4, <3>1, <3>2, <3>3 DEF Serve
  <2> QED
    BY <1>2, <2>1, <2>2, <2>3, <2>4 DEF QueueThread
<1>3. CASE MainThread
  <2>1. CASE StopTimer
    BY <2>1 DEF StopTimer, busVars, gainVars, queueVars
  <2>2. CASE JoinTimer
    BY <2>2 DEF JoinTimer, queueVars
  <2>3. CASE InitializeDevice
    BY <2>3 DEF InitializeDevice, gainVars, queueVars
  <2>4. CASE StartTimer
    BY <2>4 DEF StartTimer, queueVars
  <2> QED
    BY <1>3, <2>1, <2>2, <2>3, <2>4 DEF MainThread, Restart
<1>4. CASE UNCHANGED vars
  BY <1>4 DEF vars, busVars, gainVars, queueVars, mainVars
<1> QED
  BY <1>1, <1>2, <1>3, <1>4 DEF Next

LEMMA GainsInductive ==
  ASSUME ~Overlap
  PROVE  Spec => []GInv
<1>1. GInv /\ [Next]_vars => GInv'
  BY GainsNext
<1> QED
  BY <1>1, GainsInit, PTL DEF Spec

\* While mode messages keep out of the bus half of a cycle, a gain the modules
\* asked for is in the servo or on its way, whatever restarts and whatever the
\* init file says: the comparison with the remembered gain hides nothing.
THEOREM GainsNeverLost ==
  ASSUME ~Overlap
  PROVE  Spec => []GainsInForce
<1>1. GInv => GainsInForce
  BY DEF GInv, GainsTyped, GainsBacked, GainsInForce
<1> QED
  BY <1>1, GainsInductive, PTL
=============================================================================
