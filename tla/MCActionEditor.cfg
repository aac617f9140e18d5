SPECIFICATION Spec
CONSTANTS
  Joints <- MCJoints
  Opposite <- MCOpposite
  Right <- MCRight
  Top = 1
  MaxStep = 3
  Pages = {1, 2}
  Ratios = {0, 5, 10}
  MaxCommands = 2
  Files <- MCFiles
  Clean = TRUE
INVARIANTS
  UnsavedIsAskedFor
  PosesOnly
  ShownIsHeld
PROPERTIES
  StepsAsAsked
CHECK_DEADLOCK FALSE
