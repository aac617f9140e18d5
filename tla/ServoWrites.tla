---------------------------- MODULE ServoWrites ----------------------------
(***************************************************************************)
(* How a value written once reaches a servo: the bus pipeline of the       *)
(* robotis controller. Items written by message wait in                    *)
(* direct_sync_write_, changed gains in the gain lists, until the timer    *)
(* thread transmits them between the two halves of a bulk read; both are   *)
(* sent once and cleared whatever became of the packet.                    *)
(*                                                                         *)
(* Three threads: the timer thread (one process() per cycle), the queue    *)
(* thread (/robotis/sync_write_item, /robotis/write_control_table and      *)
(* /robotis/set_control_mode), and the manager's main thread, which   *)
(* restarts the controller (stopTimer, initializeDevice, startTimer). A    *)
(* packet is refused while an answer is outstanding on the port            *)
(* (is_using_). Each critical section of queue_mutex_ is one action.       *)
(***************************************************************************)
EXTENDS Naturals, Sequences

CONSTANTS
  Joints,       \* robot_->dxls_, whose gains the modules set
  Devices,      \* dxls_ and sensors_, which take item writes
  Items,        \* control table items a client writes
  Values,       \* their values
  Batches,      \* the sync_write_item messages clients send
  TableWrites,  \* the write_control_table messages clients send
  Gains,        \* gain values
  FileGain,     \* the gain in the robot's init file
  None,         \* no entry in a list, and NONE_GAIN in a module's result
  MaxGroups,    \* bound: direct writes waiting at once
  MaxRestarts,  \* bound: restarts of the controller
  Crowded,      \* TRUE: sync_write_item sent whatever is already waiting
  Overlap       \* TRUE: mode messages handled while the bus is being written

ASSUME DevicesAssumption == Joints \subseteq Devices
ASSUME NoneAssumption == None \notin Values \cup Gains
ASSUME MessagesAssumption ==
  /\ Batches \subseteq [item : Items, values : [Devices -> Values \cup {None}]]
  /\ TableWrites \subseteq [device : Devices, item : Items, value : Values]
ASSUME FileGainAssumption == FileGain \in Gains
ASSUME BoundsAssumption == MaxGroups \in Nat \ {0} /\ MaxRestarts \in Nat
ASSUME ClientsAssumption == Crowded \in BOOLEAN /\ Overlap \in BOOLEAN

VARIABLES
  mode,       \* controller_mode_
  timer,      \* where the timer thread is in process(), "off" when joined
  seen,       \* the mode in which this cycle's bus half runs
  using,      \* is_using_ of the port
  direct,     \* direct_sync_write_
  asked,      \* the gain in each joint's module result
  gain,       \* the gain of dxl_state_
  gainList,   \* the gain sync-write list
  memory,     \* the servos' control tables, item by item
  servoGain,  \* the servos' gains
  queue,      \* the message the queue thread is in
  main,       \* where the main thread is in a restart
  stop,       \* stop_timer_
  restarts,   \* restarts so far
  wanted      \* history: the last value accepted for each item

busVars   == <<using, memory, servoGain>>
gainVars  == <<asked, gain, gainList>>
queueVars == <<mode, queue>>
mainVars  == <<main, stop, restarts>>
vars == <<timer, seen, direct, wanted, busVars, gainVars, queueVars, mainVars>>

Modes == {"motion", "direct"}

Ready       == [kind |-> "ready"]
Switch(m)   == [kind |-> "mode", mode |-> m]
Write(i, w) == [kind |-> "items", item |-> i, values |-> w]

Entries == [Devices -> Values \cup {None}]
Groups  == [item : Items, entry : Entries]

Messages ==
  {Ready} \cup {Switch(m) : m \in Modes}
    \cup {Write(i, w) : i \in Items, w \in Entries}

NewGroup(d, i, v) ==
  [item |-> i, entry |-> [x \in Devices |-> IF x = d THEN v ELSE None]]

Init ==
  /\ mode = "motion" /\ seen = "motion"
  /\ timer = "start" /\ using = TRUE
  /\ direct = <<>>
  /\ asked = [j \in Joints |-> None]
  /\ servoGain = [j \in Joints |-> FileGain]
  /\ gain = servoGain
  /\ gainList = [j \in Joints |-> None]
  /\ \E v \in Values : memory = [d \in Devices |-> [i \in Items |-> v]]
  /\ wanted = memory
  /\ queue = Ready
  /\ main = "idle" /\ stop = FALSE /\ restarts = 0

----------------------------------------------------------------------------
(* The timer thread. process() reads controller_mode_ twice on its way to  *)
(* the bus: a cycle that finds "direct" at first and "motion" then leaves  *)
(* the bus alone.                                                          *)

ReceiveMotion ==
  /\ timer = "start" /\ mode = "motion"
  /\ timer' = "write" /\ seen' = "motion"
  /\ using' = FALSE
  /\ UNCHANGED <<direct, wanted, memory, servoGain, gainVars, queueVars, mainVars>>

NotMotion ==
  /\ timer = "start" /\ mode # "motion"
  /\ timer' = "again"
  /\ UNCHANGED <<seen, direct, wanted, busVars, gainVars, queueVars, mainVars>>

ReceiveDirect ==
  /\ timer = "again" /\ mode = "direct"
  /\ timer' = "write" /\ seen' = "direct"
  /\ using' = FALSE
  /\ UNCHANGED <<direct, wanted, memory, servoGain, gainVars, queueVars, mainVars>>

NotDirect ==
  /\ timer = "again" /\ mode # "direct"
  /\ timer' = "pass"
  /\ UNCHANGED <<seen, direct, wanted, busVars, gainVars, queueVars, mainVars>>

\* Group n carries a value for the device, at the group's own address.
Carries(n, d, i) ==
  /\ n \in 1 .. Len(direct)
  /\ direct[n].item = i /\ direct[n].entry[d] # None

CarriesLast(n, d, i) ==
  Carries(n, d, i) /\ \A k \in n + 1 .. Len(direct) : ~Carries(k, d, i)

\* The control tables once the groups have been sent, first to last.
Landed ==
  [d \in Devices |-> [i \in Items |->
     IF \E n \in 1 .. Len(direct) : Carries(n, d, i)
       THEN direct[CHOOSE n \in 1 .. Len(direct) : CarriesLast(n, d, i)].entry[d]
       ELSE memory[d][i]]]

\* The direct writes, then in motion mode the gain lists, under the mutex.
\* txPacket() is refused on a port in use, and the lists are cleared all the
\* same.
Transmit ==
  /\ timer = "write"
  /\ timer' = "request"
  /\ memory' = IF using THEN memory ELSE Landed
  /\ direct' = <<>>
  /\ servoGain' = [j \in Joints |->
       IF using \/ seen = "direct" \/ gainList[j] = None
         THEN servoGain[j] ELSE gainList[j]]
  /\ gainList' = IF seen = "direct" THEN gainList ELSE [j \in Joints |-> None]
  /\ UNCHANGED <<seen, wanted, using, asked, gain, queueVars, mainVars>>

\* The next bulk read is asked for: the port is in use until it is answered.
Request ==
  /\ timer = "request"
  /\ timer' = "pass"
  /\ using' = TRUE
  /\ UNCHANGED <<seen, direct, wanted, memory, servoGain, gainVars, queueVars, mainVars>>

\* A gain a module asks for is remembered and put in the list when it differs
\* from the one remembered; addParam() keeps an entry that is already there.
ModulePass ==
  /\ timer = "pass" /\ mode = "motion"
  /\ timer' = "end"
  /\ asked' \in [Joints -> Gains \cup {None}]
  /\ LET changed == {j \in Joints : asked'[j] \notin {None, gain[j]}} IN
       /\ gain' = [j \in Joints |-> IF j \in changed THEN asked'[j] ELSE gain[j]]
       /\ gainList' = [j \in Joints |->
            IF j \in changed /\ gainList[j] = None THEN asked'[j] ELSE gainList[j]]
  /\ UNCHANGED <<seen, direct, wanted, busVars, queueVars, mainVars>>

NoPass ==
  /\ timer = "pass" /\ mode # "motion"
  /\ timer' = "end"
  /\ UNCHANGED <<seen, direct, wanted, busVars, gainVars, queueVars, mainVars>>

\* timerThread() looks at stop_timer_ between two cycles.
NextCycle ==
  /\ timer = "end"
  /\ timer' = IF stop THEN "off" ELSE "start"
  /\ UNCHANGED <<seen, direct, wanted, busVars, gainVars, queueVars, mainVars>>

----------------------------------------------------------------------------
(* The queue thread.                                                       *)

QueueStep == UNCHANGED <<timer, seen, main, stop, restarts>>

ReceiveItems(b) ==
  /\ queue.kind = "ready"
  /\ queue' = Write(b.item, b.values)
  /\ UNCHANGED <<mode, direct, wanted, busVars, gainVars>> /\ QueueStep

\* The first waiting group takes the value, whatever its item is; addParam()
\* refuses a device that is in it already.
Joined(g, d, v) ==
  IF g.entry[d] = None THEN [g EXCEPT !.entry[d] = v] ELSE g

\* What a sensible client waits for: nothing waiting, or a first group of the
\* same item that has no value for the device, and none queued behind it.
Roomy(d, i) ==
  direct # <<>> =>
    direct[1].item = i /\ \A n \in 1 .. Len(direct) : ~Carries(n, d, i)

\* syncWriteItemCallback() takes the mutex once per joint of the message, so
\* the timer thread may transmit half of it.
EnterItem(d) ==
  /\ queue.kind = "items" /\ queue.values[d] # None
  /\ Crowded \/ Roomy(d, queue.item)
  /\ LET v == queue.values[d] IN
       /\ direct' = IF direct = <<>> THEN <<NewGroup(d, queue.item, v)>>
                    ELSE [direct EXCEPT ![1] = Joined(@, d, v)]
       /\ wanted' = [wanted EXCEPT ![d][queue.item] = v]
       /\ queue' = [queue EXCEPT !.values[d] = None]
  /\ UNCHANGED <<mode, busVars, gainVars>> /\ QueueStep

\* The message's last joint is done.
EndItems ==
  /\ queue.kind = "items" /\ \A d \in Devices : queue.values[d] = None
  /\ queue' = Ready
  /\ UNCHANGED <<mode, direct, wanted, busVars, gainVars>> /\ QueueStep

\* writeControlTableCallback(): always a group of its own, at the end.
WriteTable(w) ==
  /\ queue.kind = "ready" /\ Len(direct) < MaxGroups
  /\ direct' = Append(direct, NewGroup(w.device, w.item, w.value))
  /\ wanted' = [wanted EXCEPT ![w.device][w.item] = w.value]
  /\ UNCHANGED <<busVars, gainVars, queueVars>> /\ QueueStep

\* setControllerModeCallback() first uses the bus without the mutex (a last
\* answer on the way to "direct", a request on the way to "motion"), then
\* stores the mode.
SwitchBus(m) ==
  /\ queue.kind = "ready"
  /\ Overlap \/ m = "direct" \/ (timer \notin {"write", "request"} /\ main = "idle")
  /\ queue' = Switch(m)
  /\ using' = (m = "motion")
  /\ UNCHANGED <<mode, direct, wanted, memory, servoGain, gainVars>> /\ QueueStep

SwitchMode ==
  /\ queue.kind = "mode"
  /\ \/ Overlap \/ queue.mode = "direct" \/ mode = "motion"
     \/ timer \in {"start", "end", "off"}
     \/ \A j \in Joints : gainList[j] = None
  /\ mode' = queue.mode /\ queue' = Ready
  /\ UNCHANGED <<direct, wanted, busVars, gainVars>> /\ QueueStep

----------------------------------------------------------------------------
(* The manager's main thread restarts the controller.                      *)

StopTimer ==
  /\ main = "idle" /\ restarts < MaxRestarts
  /\ stop' = TRUE /\ main' = "join" /\ restarts' = restarts + 1
  /\ UNCHANGED <<timer, seen, direct, wanted, busVars, gainVars, queueVars>>

\* pthread_join(); the outstanding answer is read and every list but
\* direct_sync_write_ is cleared.
\* Mutant: the thread is not waited for.
JoinTimerUnjoined ==
  /\ main = "join"
  /\ stop' = FALSE /\ main' = "init"
  /\ using' = FALSE
  /\ gainList' = [j \in Joints |-> None]
  /\ UNCHANGED <<timer, seen, direct, wanted, memory, servoGain, asked, gain,
                 queueVars, restarts>>
\* Mutant: the gain lists are left as they are.
JoinTimerLists ==
  /\ main = "join" /\ timer = "off"
  /\ stop' = FALSE /\ main' = "init"
  /\ using' = FALSE
  /\ UNCHANGED <<timer, seen, direct, wanted, memory, servoGain, gainVars,
                 queueVars, restarts>>
\* Mutant: direct_sync_write_ is cleared as well.
JoinTimerAllLists ==
  /\ main = "join" /\ timer = "off"
  /\ stop' = FALSE /\ main' = "init"
  /\ using' = FALSE
  /\ direct' = <<>> /\ gainList' = [j \in Joints |-> None]
  /\ UNCHANGED <<timer, seen, wanted, memory, servoGain, asked, gain,
                 queueVars, restarts>>
JoinTimer ==
  /\ main = "join" /\ timer = "off"
  /\ stop' = FALSE /\ main' = "init"
  /\ using' = FALSE
  /\ gainList' = [j \in Joints |-> None]
  /\ UNCHANGED <<timer, seen, direct, wanted, memory, servoGain, asked, gain,
                 queueVars, restarts>>

\* initializeDevice() writes the init file's gains, unless the torque was on
\* and the manager leaves it out; a port in use refuses the writes.
InitializeDevice ==
  /\ main = "init"
  /\ main' = "start"
  /\ servoGain' \in {servoGain} \cup
       (IF using THEN {} ELSE {[j \in Joints |-> FileGain]})
  /\ UNCHANGED <<timer, seen, direct, wanted, using, memory, gainVars,
                 queueVars, stop, restarts>>

\* startTimer(): initializeSyncWrite() reads the gains back from the servos
\* with the first bulk read, then a bulk read is asked for and the thread
\* starts.
\* Mutant: the gains are not read back.
StartTimerUnread ==
  /\ main = "start"
  /\ main' = "idle" /\ timer' = "start"
  /\ using' = TRUE
  /\ UNCHANGED <<seen, direct, wanted, memory, servoGain, gainVars,
                 queueVars, stop, restarts>>
StartTimer ==
  /\ main = "start"
  /\ main' = "idle" /\ timer' = "start"
  /\ gain' = servoGain
  /\ using' = TRUE
  /\ UNCHANGED <<seen, direct, wanted, memory, servoGain, asked, gainList,
                 queueVars, stop, restarts>>

----------------------------------------------------------------------------

TimerThread ==
  \/ ReceiveMotion \/ NotMotion \/ ReceiveDirect \/ NotDirect
  \/ Transmit \/ Request \/ ModulePass \/ NoPass \/ NextCycle

Serve ==
  \/ \E d \in Devices : EnterItem(d)
  \/ EndItems
  \/ SwitchMode

QueueThread ==
  \/ \E b \in Batches : ReceiveItems(b)
  \/ \E w \in TableWrites : WriteTable(w)
  \/ \E m \in Modes : SwitchBus(m)
  \/ Serve

Restart == JoinTimer \/ InitializeDevice \/ StartTimer
MainThread == StopTimer \/ Restart

Next == TimerThread \/ QueueThread \/ MainThread

\* The timer thread is a real-time thread on its own clock, a callback that
\* has begun is run to its end, and the restart is straight-line code. No
\* message need ever come, and no restart.
Spec ==
  /\ Init /\ [][Next]_vars
  /\ WF_vars(TimerThread) /\ WF_vars(Serve) /\ WF_vars(Restart)

----------------------------------------------------------------------------
(* Properties.                                                             *)

\* What each variable may hold.
TypeOK ==
  /\ mode \in Modes /\ seen \in Modes
  /\ timer \in {"start", "again", "write", "request", "pass", "end", "off"}
  /\ using \in BOOLEAN
  /\ direct \in Seq(Groups)
  /\ asked \in [Joints -> Gains \cup {None}]
  /\ gain \in [Joints -> Gains]
  /\ gainList \in [Joints -> Gains \cup {None}]
  /\ memory \in [Devices -> [Items -> Values]]
  /\ servoGain \in [Joints -> Gains]
  /\ queue \in Messages
  /\ main \in {"idle", "join", "init", "start"}
  /\ stop \in BOOLEAN
  /\ restarts \in 0 .. MaxRestarts
  /\ wanted \in [Devices -> [Items -> Values]]

\* The timer thread has ended exactly while the main thread is between its
\* join and its start, so nobody transmits during initializeDevice().
TimerOff ==
  /\ main \in {"init", "start"} => timer = "off"
  /\ main = "idle" => timer # "off"
  /\ stop <=> main = "join"

\* Every value accepted by sync_write_item or write_control_table is in the
\* servo's control table once nothing waits, across mode switches and restarts.
WritesInForce == direct = <<>> => memory = wanted

\* A gain the controller remembers and the servo does not have is on its way,
\* so that "not changed" never hides a gain the servo was not given.
GainsInForce ==
  main \in {"idle", "join"} =>
    \A j \in Joints : gain[j] # servoGain[j] => gainList[j] = gain[j]

\* No packet is refused: the transmit half of a cycle and the restart's own
\* writes find the port free of outstanding answers.
PortFreeToWrite == timer = "write" \/ main = "init" => ~using

\* A gain a module goes on asking for ends up in the servo, if motion mode
\* lasts: after a restart from the init file's gains as well.
GainsReachServos ==
  \A j \in Joints, g \in Gains :
    <>[](mode = "motion" /\ asked[j] = g) => <>[](servoGain[j] = g)

\* Direct writes are drained again and again whatever the mode is, if it is
\* not switched for ever.
WritesDrained ==
  (\E m \in Modes : <>[](mode = m)) => []<>(direct = <<>>)
=============================================================================
