-------------------------- MODULE MCWalkingModule --------------------------
(* The walking module with a period of a few control cycles.                *)
EXTENDS WalkingModule
=============================================================================
