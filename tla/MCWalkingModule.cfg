SPECIFICATION FairSpec
CONSTANTS
  JointCount = 2
  Quarter = 2
  PoseSteps = 2
  Patient = TRUE
  Considerate = TRUE
INVARIANTS
  StandsOnBothFeet
PROPERTIES
  GaitContinuous
  KeepsContract
  StopObeyed
