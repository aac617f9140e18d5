SPECIFICATION FairSpec
CONSTANTS
  Far = 3
  Corners <- Scan
  Blocked = {2}
  MaxThreads = 2
  Careful = TRUE
  Overlap = FALSE
PROPERTIES
  NoJump
  HandoverEnds
  TargetReached
