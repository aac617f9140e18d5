SPECIFICATION FairSpec
CONSTANTS
  Page <- MCPage
  Impatient = FALSE
INVARIANTS
  InBounds
PROPERTIES
  RepeatHonoured
  StopEnds
  PlaysPages
