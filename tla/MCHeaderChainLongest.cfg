\* Four branches, between which the source moves by taking back one header.
CONSTANTS
  Headers <- Tree
  Genesis <- Root
  Parent <- TreeParent
  MaxReorg = 1
  MaxCrashes = 0
  MaxBlocks = 2
SPECIFICATION Spec
INVARIANTS
  AcceptsLongestOnly
CHECK_DEADLOCK TRUE
