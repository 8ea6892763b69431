\* Four branches, between which the source moves by taking back up to two headers.
CONSTANTS
  Headers <- Tree
  Genesis <- Root
  Parent <- TreeParent
  MaxReorg = 2
  MaxCrashes = 2
  MaxBlocks = 2
SPECIFICATION FairSpec
INVARIANTS
  TypeOK
  ValidatesPieces
PROPERTIES
  DoneIsComplete
  CatchesUpUnlessDeep
CHECK_DEADLOCK TRUE
