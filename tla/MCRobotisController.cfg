SPECIFICATION Spec
CONSTANTS
  leg = leg
  neck = neck
  action = action
  walking = walking
  NoModule = NoModule
  Unknown = Unknown
  Absent = Absent
  Joints <- MCJoints
  Modules <- MCModules
  Results <- MCResults
  ControlMode <- MCMixedControl
  low = low
  high = high
  Goals <- MCGoals
  JointRequests <- MCPartialJointRequests
  Braking = {action}
  Commanded = {action}
  Restartable = {walking}
  Settling = {walking}
  StopTicks = 1
INVARIANTS
  ListsInStep
  ModulesMatchOwners
  ServiceDelivers
PROPERTIES
  JointsTakenSafely
SYMMETRY GoalSymmetry
