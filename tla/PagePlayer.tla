----------------------------- MODULE PagePlayer -----------------------------
(***************************************************************************)
(* What op3_action_module promises about the pages of the action file: it  *)
(* plays one page at a time, the page whose number it says it plays, and   *)
(* goes from a page only to the page named in its header.                  *)
(***************************************************************************)
EXTENDS Naturals

CONSTANT Page   \* the action file: Page[n].next and Page[n].exit, 0 for none

VARIABLES
  number,   \* the number of the page that is played, 0 when none is
  shown     \* the page whose steps are played

Init == number = 0 /\ shown = 0

Start == \E p \in DOMAIN Page : number' = p /\ shown' = p /\ number = 0

Turn ==
  /\ number # 0
  /\ number' \in {Page[number].next, Page[number].exit} \ {0}
  /\ shown' = number'

End == number' = 0 /\ shown' = 0

Next == Start \/ Turn \/ End

Spec == Init /\ [][Next]_<<number, shown>>
=============================================================================
