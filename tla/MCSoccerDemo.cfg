\* One visit to the soccer demo of a patient user.
CONSTANTS
  WaitTicks = 2
  MaxFalls = 2
  MaxCommands = 4
  Patient = TRUE
  Reenter = FALSE
SPECIFICATION Spec
INVARIANTS PageOrGait GetupOnlyFallen
PROPERTIES GamePlayed FallHandled
