SPECIFICATION FairSpec
CONSTANTS
  Far = 1
  MaxTime = 1
  StepNums = {2}
  RampTime = 1
  Promises = {"rest", "quiet", "standing", "timed"}
INVARIANTS
  PlansKept
PROPERTIES
  FeetTogether
  EndsAtGoal
  ControlReturns
