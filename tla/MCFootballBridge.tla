-------------------------- MODULE MCFootballBridge --------------------------
(* The bridge with queues of one or two messages: all that matters of the   *)
(* depth of 10 is that the oldest message is lost when it is exceeded.      *)
EXTENDS FootballBridge
=============================================================================
