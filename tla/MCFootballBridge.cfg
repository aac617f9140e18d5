SPECIFICATION FairSpec
CONSTANTS
  CommandDepth = 2
  Depth = 1
  AutoGetup = TRUE
  Overlap = FALSE
INVARIANTS
  EstopStopsWalking
  BodyAsBelieved
PROPERTIES
  EstopObeyed
