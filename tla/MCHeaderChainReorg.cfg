\* Four branches, between which the source moves by taking back two headers.
CONSTANTS
  Headers <- Tree
  Genesis <- Root
  Parent <- TreeParent
  MaxReorg = 2
  MaxCrashes = 0
  MaxBlocks = 2
SPECIFICATION FairSpec
PROPERTIES
  CatchesUp
CHECK_DEADLOCK TRUE
