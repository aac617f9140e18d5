-------------------------- MODULE MCServoWrites --------------------------
\* ServoWrites on one servo and the sub controller. Clients set the LEDs of
\* both in one message, or one of them, and the sub controller's power item.
EXTENDS ServoWrites

CONSTANTS j1, cr, led, power, on, off, low, high, none

MCJoints == {j1}
MCDevices == {j1, cr}
MCItems == {led, power}
MCValues == {on, off}
MCGains == {low, high}
MCBatches ==
  {[item |-> led, values |-> [d \in MCDevices |-> on]],
   [item |-> power, values |-> [d \in MCDevices |-> IF d = cr THEN on ELSE none]]}
MCTableWrites ==
  {[device |-> j1, item |-> led, value |-> off],
   [device |-> cr, item |-> power, value |-> off]}
=============================================================================
