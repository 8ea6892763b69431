\* One epoch, honest droplets and a torn file.
CONSTANTS
  SuperBlocksPerEpoch = 2
  BlocksPerSuperBlock = 1
  MaxEpochs = 1
  MaxInterrupts = 0
  badBody = badBody
  elsewhere = elsewhere
  huge = huge
  Noise <- None
  Huge <- None
  Hollow <- None
  Foreign <- None
  BadBodies <- None
  Place <- NoPlace
  Collected <- HonestAndTorn
  MaxDroplets = 3
  TmpStorageMayFail = FALSE
SPECIFICATION RestoreFairSpec
PROPERTIES
  GenerateHelps
CHECK_DEADLOCK TRUE
