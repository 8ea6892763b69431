\* Two epochs of two superblocks of two blocks; every kind of droplet.
CONSTANTS
  SuperBlocksPerEpoch = 2
  BlocksPerSuperBlock = 2
  MaxEpochs = 2
  MaxInterrupts = 1
  badBody = badBody
  elsewhere = elsewhere
  huge = huge
  Noise <- OneHuge
  Huge <- OneHuge
  Hollow <- None
  Foreign <- BadAndElsewhere
  BadBodies <- OneBadBody
  Place <- PlaceOfBadAndElsewhere
  Collected <- AllKinds
  MaxDroplets = 2
  TmpStorageMayFail = FALSE
SPECIFICATION RestoreFairSpec
INVARIANTS
  RestoreTypeOK
  OutputPrefix
PROPERTIES
  RestoredComplete
  NeedMoreJustified
  SufficientSuffices
  ImplementsImport
  EventuallyRestored
CHECK_DEADLOCK TRUE
