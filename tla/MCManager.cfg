\* The process may end.
CONSTANTS
  walking = walking
  base = base
  none = none
  Modules <- MCModules
  NoModule = none
  StopTicks = 2
  MaxRestarts = 3
SPECIFICATION Spec
INVARIANTS NoDeadlock
PROPERTIES TimerComesBack CallbackReturns
CHECK_DEADLOCK FALSE
