---------------------------- MODULE MotionModule ----------------------------
(***************************************************************************)
(* What the controller relies on in a motion module, whatever it computes: *)
(* when isRunning() may become true, that it becomes false a bounded       *)
(* number of process() calls after stop(), and what disabling leaves of a  *)
(* motion.                                                                 *)
(*                                                                         *)
(* A module moves after a command: the command's callback finds it enabled *)
(* and, a step later and without a lock, sets it in motion, so that it may *)
(* have been disabled in between. One that settles may move without one,   *)
(* once, from its first process() call after it has been enabled; it gives *)
(* up that motion when it is disabled.                                     *)
(***************************************************************************)
EXTENDS Naturals

CONSTANTS
  StopTicks,   \* process() calls that are enough to come to rest
  Braking,     \* whether onModuleDisable() ends any motion
  Restartable, \* whether a start command is taken in motion
  Settles      \* whether the module may move by itself when it has been enabled

VARIABLES
  enabled,    \* getModuleEnable()
  settling,   \* its motion of its own: "due" after enabling, under way "now", or "no"
  motion,     \* process() calls before isRunning() is false
  stopping,   \* stop() asked for and not yet forgotten
  heard,      \* a command has found the module enabled and is about to set it in motion
  busy        \* process() is under way, or the module's turn in the timer's pass to come

vars == <<enabled, settling, motion, stopping, heard, busy>>

Init ==
  /\ enabled = FALSE /\ settling = "no" /\ motion = 0
  /\ stopping \in BOOLEAN /\ heard = FALSE /\ busy = FALSE

\* What a part of process(), and all of it, may leave of a motion: nothing moves by
\* itself unless it is to settle, and after a stop every call shortens the motion.
WithinProcess ==
  {n \in 0 .. StopTicks :
     settling # "due" => /\ motion = 0 => n = 0
                         /\ stopping => n <= motion}
AfterProcess == {n \in WithinProcess : motion > 0 /\ stopping /\ settling # "due" => n < motion}

\* ... and of settling, where it leaves n of the motion.
Settled(n) ==
  IF n > 0 /\ (settling = "now" \/ (settling = "due" /\ motion = 0)) THEN "now" ELSE "no"

\* A stop can tell how long the motion goes on, but does not end it.
AfterStop == {n \in 0 .. motion : n = 0 <=> motion = 0}

AfterDisable == IF Braking \/ settling = "now" THEN {0} ELSE 0 .. motion

AfterEnable == IF Settles THEN "due" ELSE "no"

----------------------------------------------------------------------------
Process ==
  /\ busy' = TRUE
  /\ motion' \in WithinProcess
  /\ settling' = Settled(motion') \/ (settling = "due" /\ settling' = "due")
  /\ UNCHANGED <<enabled, stopping, heard>>

EndProcess ==
  /\ busy /\ busy' = FALSE
  /\ \/ motion' \in AfterProcess /\ settling' = Settled(motion')
     \/ ~enabled /\ UNCHANGED <<motion, settling>>
  /\ UNCHANGED <<enabled, stopping, heard>>

Hear ==
  /\ enabled /\ ~heard
  /\ motion = 0 \/ Restartable
  /\ heard' = TRUE
  /\ UNCHANGED <<enabled, settling, motion, stopping, busy>>

Command ==
  /\ heard /\ heard' = FALSE
  /\ motion' = StopTicks /\ stopping' = FALSE
  /\ settling' = IF settling = "due" THEN "due" ELSE "no"
  /\ UNCHANGED <<enabled, busy>>

Stop ==
  /\ motion' \in AfterStop /\ stopping' = TRUE
  /\ UNCHANGED <<enabled, settling, heard, busy>>

Disable ==
  /\ enabled' = FALSE /\ settling' = "no"
  /\ motion' \in AfterDisable
  /\ UNCHANGED <<stopping, heard, busy>>

\* The mutex is held: not within process().
Enable ==
  /\ ~enabled /\ ~busy
  /\ enabled' = TRUE /\ settling' = AfterEnable
  /\ UNCHANGED <<motion, stopping, heard, busy>>

Next == Process \/ EndProcess \/ Hear \/ Command \/ Stop \/ Disable \/ Enable

Spec == Init /\ [][Next]_vars
=============================================================================
