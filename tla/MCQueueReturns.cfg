SPECIFICATION ConsiderateSpec
CONSTANTS
  leg = leg
  neck = neck
  action = action
  walking = walking
  NoModule = NoModule
  Unknown = Unknown
  Absent = Absent
  Joints <- MCJoints
  Modules <- MCModules
  Results <- MCResults
  ControlMode <- MCPositionControl
  low = low
  high = high
  Goals = {low}
  JointRequests <- MCJointRequests
  Braking = {action}
  Commanded = {action, walking}
  Restartable = {walking}
  Settling = {walking}
  StopTicks = 1
PROPERTIES
  QuietHandover
  QueueReturns
