SPECIFICATION Spec
CONSTANTS
  Far = 3
  Exclusive = TRUE
  Overlap = FALSE
PROPERTIES
  NoJump
