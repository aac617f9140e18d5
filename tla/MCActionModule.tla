--------------------------- MODULE MCActionModule ---------------------------
(* A small action file: page 1 ends by itself after two passes, 2 and 3       *)
(* follow each other until stopped, 4 is erased.                              *)
EXTENDS ActionModule, TLC

MCPage ==
     1 :> [repeat |-> 2, next |-> 0, exit |-> 0, accel |-> 1,
           step |-> <<[time |-> 3, pause |-> 0], [time |-> 1, pause |-> 1]>>]
  @@ 2 :> [repeat |-> 1, next |-> 3, exit |-> 1, accel |-> 0,
           step |-> <<[time |-> 2, pause |-> 0]>>]
  @@ 3 :> [repeat |-> 2, next |-> 2, exit |-> 4, accel |-> 1,
           step |-> <<[time |-> 2, pause |-> 0]>>]
  @@ 4 :> [repeat |-> 1, next |-> 0, exit |-> 0, accel |-> 1, step |-> <<>>]
=============================================================================
