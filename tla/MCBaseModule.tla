---------------------------- MODULE MCBaseModule ----------------------------
(* The base module with a trajectory of a few rows.                         *)
EXTENDS BaseModule
=============================================================================
